---- MODULE Spec2Model ----
(***************************************************************************)
(* Discovery orchestration framework of the identity risk analytics        *)
(* platform (services/discovery-service): token cache, page-fetch loops,   *)
(* per-scope deduplication and scope fan-out, modelled from the connector  *)
(* sources.                                                                *)
(*                                                                         *)
(* The specifications share the module; each one drives its own group of   *)
(* variables and leaves the others at their initial values:                *)
(*   SpecToken      get_graph_token / get_auth_token and the module-level  *)
(*                  _token_cache, calls made one after the other           *)
(*   Spec           one scope's page-fetch loop of each connector style    *)
(*   SpecScopes     fetch_identities: scope fan-out, gather and merge      *)
(*   SpecHang       the same with scope tasks that never return            *)
(*   SpecCallers    pool threads calling get_graph_token concurrently      *)
(*   SpecRetry      the retry wrapper                                      *)
(*   SpecLoader     saas_connector_orchestrator.load_saas_connectors       *)
(*   SpecRun        main.main with the publisher                           *)
(*   SpecDedup      region threads sharing AWSResourceConnector.cache      *)
(*   SpecTwice      repeated fetches on one connector instance             *)
(*   SpecInstances  two connector instances and their token caches         *)
(*   SpecResReq     request building of the GCP / Azure resource connectors*)
(*   SpecPaginate   fetch_paginated_data of the OAuth connectors           *)
(*   SpecAuth       auth-service/src/auth.py and its environment           *)
(*   SpecProducer   coroutines calling one KafkaProducerWrapper            *)
(***************************************************************************)
EXTENDS Integers, Sequences, FiniteSets, TLC

(***************************************************************************)
(* Bounds of the model.                                                    *)
(***************************************************************************)
MaxClock == 90
TickLen == 30
MaxCalls == 3
MaxPages == 2
MaxPageLen == 2
MaxThrottles == 2
MaxRuns == 2
NumScopes == 3
NumCallers == 2
MaxBudget == 4
MaxPlugins == 2
MaxRecords == 2
NumRegions == 2
MaxArns == 2

(***************************************************************************)
(* Program constants.                                                      *)
(***************************************************************************)
SafetyMargin == 60
DefaultTTL == 3600
MaxAttempts == 3

VARIABLES
  \* ---- token cache (SpecToken) ----
  clock,        \* datetime.utcnow(), in seconds
  tokenCache,   \* _token_cache: cache key -> {access_token, expires_at}
  issued,       \* credential exchanges answered with a token so far (the next token's value)
  callsMade,    \* get_graph_token calls started so far
  inflight,     \* the call in progress between its cache check and its exchange
  lifetimes,    \* per issued token: the instant the server lets it expire
  hist          \* per key: what the last completed call and the one before it did

  ,
  \* ---- one scope's page-fetch loop (Spec) ----
  conn,         \* which connector's fetch is running
  lastRun,      \* the scope configuration's last_run
  pPc,          \* "start", "loop", "dedup", "returned", "raised"
  url,          \* url / paging cookie / continuation of the next request
  params,       \* query parameters of the next request
  attempt,      \* attempt counter of _make_request / _retry
  throttles,    \* rate-limit responses received in this fetch
  requests,     \* every outbound page request of this fetch, in order
  got,          \* per successfully fetched page: its length and whether it had a cursor
  raw,          \* the records of the fetched pages, in order (data / results)
  users,        \* the records emitted by this fetch
  dedupIds,     \* dedup_ids, the set local to one call of the sync connectors
  instCache,    \* self.cache of a SaaS connector instance
  gaveUp,       \* the page loop was left through its except branch
  runs,         \* fetches started on this connector instance
  answers,      \* per outbound request: how it was answered and the sleep that followed
  \* ---- scope fan-out of one connector (SpecScopes) ----
  kind,         \* which connector's fetch_identities is running
  cfgScopes,    \* the configuration's list key: tenants / regions / hosts
  fiPc,         \* "init", "gather", "returned", "raised"
  tasks,        \* the scope tasks handed to the executor / to asyncio.gather
  selfCache,    \* LinuxUnixConnector.cache
  merged,       \* all_identities
  maxWorkers,   \* the configuration's max_workers
  \* ---- concurrent callers of get_graph_token (SpecCallers) ----
  callers,      \* per pool thread: the key it asks for and where its call is
  exchanges,    \* per key: credential exchanges performed so far
  \* ---- the retry wrapper (SpecRetry) ----
  rCfg,         \* max_attempts, base_delay and the name of the wrapped call
  rAttempt,     \* attempt
  rLog,         \* the outcome of every invocation of the wrapped call, in order
  rSleeps,      \* every time.sleep(delay), in order
  rPc,          \* "running", "returned", "raised"
  rResult,      \* the value returned
  rErr,         \* the call named by the exception raised
  \* ---- the SaaS plugin loader (SpecLoader) ----
  ldConfig,     \* the config argument: the plugin mapping, under a "saas" key or bare
  loopRunning,  \* whether the caller is inside a running event loop
  importable,   \* whether the plugin modules' own imports resolve
  ldPc,         \* "init", "returned", "raised"
  ldTasks,      \* plugin names whose load_plugin coroutine is scheduled on the loop
  loaded,       \* plugin name -> result of its load_plugin coroutine, once it ran
  connectors,   \* the list load_saas_connectors returned
  \* ---- one run of the discovery service (SpecRun) ----
  runPc,        \* "start", "connectors", "saas", "publish", "done", "exit1", "aborted"
  pending,      \* connector modules of the connectors directory not yet scanned
  identityData, \* identity_data
  saasMapping,  \* config["saas"]
  saasInvoked,  \* plugin names load_plugin was invoked for in this run
  failedMods,   \* connector modules whose import or fetch failed, so far
  report,       \* what the run reports at its end
  current,      \* the connector module whose fetch_identities call is in progress
  vendor,       \* connector module -> what its vendor would answer to a fetch
  fetchStarted, \* connector modules whose fetch began to execute
  producer,     \* the KafkaProducerWrapper: created, started, flushed, closed
  sendIdx,      \* position of the publish loop in identity_data
  delivered,    \* the messages handed to send_and_wait, in order
  dropped,      \* the coroutine objects main created and never awaited
  \* ---- region threads sharing one dedup set (SpecDedup) ----
  regionData,   \* region -> the ResourceARNs the region's listing returns, in order
  regionTasks,  \* region -> the thread running _fetch_resources_for_region
  sharedCache,  \* AWSResourceConnector.cache
  allResources, \* all_resources
  rfPc,         \* "gather", "returned"
  \* ---- repeated fetches on one connector instance (SpecTwice) ----
  twConn,       \* the connector
  twLastRun,    \* last_run of its configuration
  twData,       \* the vendor's records, the same at every fetch
  twCache,      \* self.cache of the instance
  twResults,    \* what each call of fetch_identities / fetch_resources returned
  \* ---- two connector instances and their token caches (SpecInstances) ----
  ocConn,       \* the connector both instances belong to
  ocCfg,        \* instance -> its configuration: cache key and client credentials
  ocClock,      \* datetime.utcnow(), in seconds
  ocModule,     \* the module-level _token_cache of the connector's module
  ocOwn,        \* instance -> self._token_cache
  ocGrants,     \* per issued token: the credentials its exchange presented
  ocLog,        \* the completed get_auth_token / get_graph_token calls, in order
  \* ---- request building of the resource connectors (SpecResReq) ----
  rqConn,       \* "gcpres" or "azres"
  rqLastRun,    \* config.get("last_run")
  rqScopes,     \* self.projects / self.subscriptions
  rqClock,      \* the wall clock, in seconds
  rqBuilt,      \* the requests built so far, one per project / subscription
  \* ---- fetch_paginated_data of the OAuth connectors (SpecPaginate) ----
  fpConn,       \* "m365", "salesforce" or "servicenow"
  fpLimit,      \* self.sysparm_limit
  fpRetryCfg,   \* self.rate_limit_retry: max_attempts
  fpClock,      \* the wall clock, in seconds
  fpCache,      \* _token_cache
  fpHeaders,    \* headers of the ClientSession: the Authorization bearer
  fpTokens,     \* what every call of get_auth_token returned, in order
  fpIssued,     \* credential exchanges answered with a token so far
  fpPc,         \* "start", "loop", "returned", "raised"
  fpUrl,        \* url
  fpOffset,     \* params["sysparm_offset"]
  fpReqs,       \* every session.get of this call, in order
  fpAns,        \* how each of them was answered and the sleep that followed
  fpPages,      \* offset and records of every page answered, in order
  fpResults,    \* data / results
  \* ---- the auth service module and its environment (SpecAuth) ----
  auEnv,        \* os.environ: AUTH_SECRET_KEY, AUTH_ALGORITHM, ACCESS_TOKEN_EXPIRE_MINUTES
  auModule,     \* auth.SECRET_KEY, auth.ALGORITHM, auth.ACCESS_TOKEN_EXPIRE_MINUTES
  auClock,      \* datetime.utcnow(), in seconds
  auSets,       \* assignments to os.environ made so far
  auSleeps,     \* time.sleep calls made so far
  auTokens,     \* the tokens generate_access_token returned, in order
  auChecks,     \* the verify_token calls and their outcomes, in order
  \* ---- coroutines calling one KafkaProducerWrapper (SpecProducer) ----
  kpStarted,    \* self.started
  kpUnder,      \* the AIOKafkaProducer: "stopped", "starting", "started", "stopping"
  kpCalls,      \* coroutine -> the wrapper method it is in and the await it is suspended at
  kpBegun,      \* wrapper methods called so far
  kpLog         \* every call on the AIOKafkaProducer and the state it was made in, in order

tokenVars == <<clock, tokenCache, issued, callsMade, inflight, lifetimes, hist>>
pageVars == <<conn, lastRun, pPc, url, params, attempt, throttles, requests, got,
              raw, users, dedupIds, instCache, gaveUp, runs, answers>>

scopeVars == <<kind, cfgScopes, fiPc, tasks, selfCache, merged, maxWorkers>>

callerVars == <<callers, exchanges>>

retryVars == <<rCfg, rAttempt, rLog, rSleeps, rPc, rResult, rErr>>

loaderVars == <<ldConfig, loopRunning, importable, ldPc, ldTasks, loaded, connectors>>

runVars == <<runPc, pending, identityData, saasMapping, saasInvoked, failedMods, report,
             current, vendor, fetchStarted, producer, sendIdx, delivered, dropped>>

dedupVars == <<regionData, regionTasks, sharedCache, allResources, rfPc>>

twiceVars == <<twConn, twLastRun, twData, twCache, twResults>>

instVars == <<ocConn, ocCfg, ocClock, ocModule, ocOwn, ocGrants, ocLog>>

resReqVars == <<rqConn, rqLastRun, rqScopes, rqClock, rqBuilt>>

paginateVars == <<fpConn, fpLimit, fpRetryCfg, fpClock, fpCache, fpHeaders, fpTokens, fpIssued, fpPc, fpUrl, fpOffset, fpReqs, fpAns, fpPages, fpResults>>

authVars == <<auEnv, auModule, auClock, auSets, auSleeps, auTokens, auChecks>>

producerVars == <<kpStarted, kpUnder, kpCalls, kpBegun, kpLog>>

vars == <<tokenVars, pageVars, scopeVars, callerVars, retryVars, loaderVars, runVars, dedupVars, twiceVars, instVars, resReqVars, paginateVars, authVars, producerVars>>

\* What the actions of one group leave alone.
notToken == <<pageVars, scopeVars, callerVars, retryVars, loaderVars, runVars, dedupVars, twiceVars, instVars, resReqVars, paginateVars, authVars, producerVars>>
notPage == <<tokenVars, scopeVars, callerVars, retryVars, loaderVars, runVars, dedupVars, twiceVars, instVars, resReqVars, paginateVars, authVars, producerVars>>
notScope == <<tokenVars, pageVars, callerVars, retryVars, loaderVars, runVars, dedupVars, twiceVars, instVars, resReqVars, paginateVars, authVars, producerVars>>
notRetry == <<tokenVars, pageVars, scopeVars, callerVars, loaderVars, runVars, dedupVars, twiceVars, instVars, resReqVars, paginateVars, authVars, producerVars>>
notLoader == <<tokenVars, pageVars, scopeVars, callerVars, retryVars, runVars, dedupVars, twiceVars, instVars, resReqVars, paginateVars, authVars, producerVars>>
notRun == <<tokenVars, pageVars, scopeVars, callerVars, retryVars, loaderVars, dedupVars, twiceVars, instVars, resReqVars, paginateVars, authVars, producerVars>>
notDedup == <<tokenVars, pageVars, scopeVars, callerVars, retryVars, loaderVars, runVars, twiceVars, instVars, resReqVars, paginateVars, authVars, producerVars>>
notTwice == <<tokenVars, pageVars, scopeVars, callerVars, retryVars, loaderVars, runVars, dedupVars, instVars, resReqVars, paginateVars, authVars, producerVars>>
notInst == <<tokenVars, pageVars, scopeVars, callerVars, retryVars, loaderVars, runVars, dedupVars, twiceVars, resReqVars, paginateVars, authVars, producerVars>>
notResReq == <<tokenVars, pageVars, scopeVars, callerVars, retryVars, loaderVars, runVars, dedupVars, twiceVars, instVars, paginateVars, authVars, producerVars>>
notPaginate == <<tokenVars, pageVars, scopeVars, callerVars, retryVars, loaderVars, runVars, dedupVars, twiceVars, instVars, resReqVars, authVars, producerVars>>
notAuth == <<tokenVars, pageVars, scopeVars, callerVars, retryVars, loaderVars, runVars, dedupVars, twiceVars, instVars, resReqVars, paginateVars, producerVars>>
notProducer == <<tokenVars, pageVars, scopeVars, callerVars, retryVars, loaderVars, runVars, dedupVars, twiceVars, instVars, resReqVars, paginateVars, authVars>>
notCallers == <<clock, callsMade, inflight, lifetimes, hist, pageVars, scopeVars, retryVars, loaderVars, runVars, dedupVars, twiceVars, instVars, resReqVars, paginateVars, authVars, producerVars>>

(***************************************************************************)
(* Token cache: azure_connector.get_graph_token, entraid_connector.        *)
(* get_graph_token, ServiceNowConnector.get_auth_token,                    *)
(* SalesforceConnector.get_auth_token.  The four share one shape: read     *)
(* now, serve the cached entry while now < expires_at, else exchange the   *)
(* credentials once, store {token, now + int(expires_in) - 60}, return.    *)
(***************************************************************************)
CacheKeys == {"k1", "k2"}

\* expires_in values the token endpoint may answer with; NoTTL: the field is absent
NoTTL == -1
ServerTTLs == {NoTTL, 30, 60, 90, 120}

\* The outcomes of one credential exchange.
ExchangeResults ==
  [kind : {"token"}, expires_in : ServerTTLs]
    \cup { [kind |-> "error", expires_in |-> NoTTL],      \* result without access_token
           [kind |-> "network", expires_in |-> NoTTL] }   \* the request itself raises

NoCall == [active |-> FALSE, key |-> "k1", now |-> 0]

NoHist == [status |-> "none", token |-> 0, now |-> 0, hadEntry |-> FALSE,
           entryToken |-> 0, entryExpires |-> 0, exchanges |-> 0,
           ttl |-> NoTTL, serverExpiry |-> 0, afterPresent |-> FALSE,
           afterToken |-> 0, afterExpires |-> 0]

\* result.get("expires_in", 3600)
ExpiresIn(result) ==
  IF result.expires_in = NoTTL THEN DefaultTTL ELSE result.expires_in

\* expires_at = now + timedelta(seconds=int(expires_in) - 60)
ExpiresAtNoMargin(now, expires_in) == now + expires_in
ExpiresAt(now, expires_in) == now + expires_in - SafetyMargin

\* if key in _token_cache: if now < token_info["expires_at"]: return cached
CacheValidInclusive(cache, key, now) ==
  key \in DOMAIN cache /\ now <= cache[key].expires_at
CacheValid(cache, key, now) ==
  key \in DOMAIN cache /\ now < cache[key].expires_at

\* _token_cache[key] = {"access_token": ..., "expires_at": ...}
CachePut(cache, key, entry) ==
  [x \in (DOMAIN cache) \cup {key} |-> IF x = key THEN entry ELSE cache[x]]

\* The cache after the exchange answered: stored only if "access_token" in result.
CacheAfterExchangeAlways(cache, key, now, result, token) ==
  CachePut(cache, key, [access_token |-> token,
                        expires_at |-> ExpiresAt(now, ExpiresIn(result))])
CacheAfterExchange(cache, key, now, result, token) ==
  IF result.kind = "token"
    THEN CachePut(cache, key, [access_token |-> token,
                               expires_at |-> ExpiresAt(now, ExpiresIn(result))])
    ELSE cache

EntryFields(cache, key) ==
  IF key \in DOMAIN cache
    THEN [present |-> TRUE, token |-> cache[key].access_token,
          expires |-> cache[key].expires_at]
    ELSE [present |-> FALSE, token |-> 0, expires |-> 0]

\* The record of a completed call, kept per key with the one before it.
Completed(key, status, token, now, before, nExch, ttl, srvExp, after) ==
  [hist EXCEPT ![key] =
     [prev |-> hist[key].last,
      last |-> [status |-> status, token |-> token, now |-> now,
                hadEntry |-> before.present, entryToken |-> before.token,
                entryExpires |-> before.expires, exchanges |-> nExch,
                ttl |-> ttl, serverExpiry |-> srvExp,
                afterPresent |-> after.present, afterToken |-> after.token,
                afterExpires |-> after.expires]]]

TokenInit ==
  /\ clock = 0
  /\ tokenCache = << >>
  /\ issued = 0
  /\ callsMade = 0
  /\ inflight = NoCall
  /\ lifetimes = << >>
  /\ hist = [k \in CacheKeys |-> [prev |-> NoHist, last |-> NoHist]]

\* Time passes.
Tick ==
  /\ clock + TickLen <= MaxClock
  /\ clock' = clock + TickLen
  /\ UNCHANGED <<tokenCache, issued, callsMade, inflight, lifetimes, hist>>
  /\ UNCHANGED notToken

\* get_graph_token up to the cache check, taken while the cached entry is valid:
\* the cached token is returned and nothing else happens.
GetTokenCached(key) ==
  /\ ~inflight.active
  /\ callsMade < MaxCalls
  /\ CacheValid(tokenCache, key, clock)
  /\ callsMade' = callsMade + 1
  /\ hist' = Completed(key, "cached", tokenCache[key].access_token, clock,
                       EntryFields(tokenCache, key), 0, NoTTL,
                       lifetimes[tokenCache[key].access_token],
                       EntryFields(tokenCache, key))
  /\ UNCHANGED <<clock, tokenCache, issued, inflight, lifetimes>>
  /\ UNCHANGED notToken

\* get_graph_token up to the cache check, with no valid entry: the call goes on
\* to the credential exchange (a blocking network call).
GetTokenMiss(key) ==
  /\ ~inflight.active
  /\ callsMade < MaxCalls
  /\ ~CacheValid(tokenCache, key, clock)
  /\ callsMade' = callsMade + 1
  /\ inflight' = [active |-> TRUE, key |-> key, now |-> clock]
  /\ UNCHANGED <<clock, tokenCache, issued, lifetimes, hist>>
  /\ UNCHANGED notToken

\* The exchange answers; the call stores and returns the token, or raises.
GetTokenExchange(result) ==
  /\ inflight.active
  /\ LET key == inflight.key
         now == inflight.now
         tok == issued + 1
         ok == result.kind = "token"
         cache2 == CacheAfterExchange(tokenCache, key, now, result, tok)
     IN /\ tokenCache' = cache2
        /\ issued' = IF ok THEN tok ELSE issued
        /\ lifetimes' = IF ok THEN Append(lifetimes, clock + ExpiresIn(result))
                               ELSE lifetimes
        /\ hist' = Completed(key, IF ok THEN "fresh" ELSE "raised",
                             IF ok THEN tok ELSE 0, now,
                             EntryFields(tokenCache, key), 1,
                             result.expires_in,
                             IF ok THEN clock + ExpiresIn(result) ELSE 0,
                             EntryFields(cache2, key))
  /\ inflight' = NoCall
  /\ UNCHANGED <<clock, callsMade>>
  /\ UNCHANGED notToken

(***************************************************************************)
(* The retry wrapper: ad_connector._retry, azure_connector._make_request,  *)
(* GenericSaasConnector._make_request.  One loop: while attempt <          *)
(* max_attempts, invoke; on any exception (for azure also a 429 answer)     *)
(* sleep base_delay * 2 ** attempt and count the attempt; after the loop,  *)
(* raise an exception that carries func.__name__ / the url.                *)
(***************************************************************************)
BaseDelays == {1, 2}
CallNames == {"search", "url1"}
CallValues == {"v1", "v2"}
NoValue == "novalue"
Failed == "failed"

\* max_attempts is a parameter of the wrapper (default 3)
RetryConfigs == [max : 0..MaxBudget, base : BaseDelays, name : CallNames]

RECURSIVE Pow2(_)
Pow2(n) == IF n = 0 THEN 1 ELSE 2 * Pow2(n - 1)

\* delay = base_delay * (2 ** attempt)
DelayLinear(base, att) == base * (att + 1)
Delay(base, att) == base * Pow2(att)

RetryInit ==
  /\ rCfg \in RetryConfigs
  /\ rAttempt = 0
  /\ rLog = << >>
  /\ rSleeps = << >>
  /\ rPc = "running"
  /\ rResult = NoValue
  /\ rErr = NoValue

RetryIdle ==
  /\ rCfg = [max |-> MaxAttempts, base |-> 1, name |-> "search"]
  /\ rAttempt = 0
  /\ rLog = << >>
  /\ rSleeps = << >>
  /\ rPc = "running"
  /\ rResult = NoValue
  /\ rErr = NoValue

\* One turn of the loop: the wrapped call returns a value, which the wrapper
\* returns, or raises, and the wrapper sleeps and counts.
RetryInvoke(outcome) ==
  /\ rPc = "running"
  /\ rAttempt < rCfg.max
  /\ rLog' = Append(rLog, outcome)
  /\ IF outcome # Failed
       THEN /\ rPc' = "returned"
            /\ rResult' = outcome
            /\ UNCHANGED <<rSleeps, rAttempt>>
       ELSE /\ rSleeps' = Append(rSleeps, Delay(rCfg.base, rAttempt))
            /\ rAttempt' = rAttempt + 1
            /\ UNCHANGED <<rPc, rResult>>
  /\ UNCHANGED <<rCfg, rErr>>
  /\ UNCHANGED notRetry

\* The loop condition fails: raise Exception(f"... {name} ... after N attempts")
RetryExhausted ==
  /\ rPc = "running"
  /\ ~(rAttempt < rCfg.max)
  /\ rPc' = "raised"
  /\ rErr' = rCfg.name
  /\ UNCHANGED <<rCfg, rAttempt, rLog, rSleeps, rResult>>
  /\ UNCHANGED notRetry

RetryNext ==
  \/ \E outcome \in CallValues \cup {Failed} : RetryInvoke(outcome)
  \/ RetryExhausted

(***************************************************************************)
(* One scope's page-fetch loop.  Five connector styles:                    *)
(*   azure       azure_connector._fetch_users (entraid_connector likewise):*)
(*               @odata.nextLink, _make_request retries, dedup_ids local   *)
(*   m365        M365Connector.fetch_paginated_data and                    *)
(*               _async_fetch_identities (SalesforceConnector likewise):   *)
(*               next link, rate-limit wait, self.cache of the instance    *)
(*   servicenow  ServiceNowConnector: sysparm_offset / sysparm_limit       *)
(*   ad          ad_connector._fetch_users: LDAP paging cookie, _retry     *)
(*   aws         aws_connector._fetch_users: boto3 paginator, last_run     *)
(*               applied to CreateDate on the client                       *)
(*   awsres      AWSResourceConnector._fetch_resources_for_region:         *)
(*               PaginationToken, self.cache of the instance               *)
(*   github      GitHubConnector: Link header, rate-limit wait, no request *)
(*               parameters, last_run not read                             *)
(***************************************************************************)
Connectors == {"azure", "m365", "servicenow", "ad", "aws", "awsres", "github"}
NextLinkStyle == {"azure", "m365"}
SaasStyle == {"m365", "servicenow", "github"}
RateLimited == {"m365", "servicenow", "github"}

Ids == {"A", "B"}

\* last_run of the scope configuration: absent, an instant, or (aws, which
\* parses it) a string parse_iso8601 rejects
LastRunValues(c) ==
  IF c = "aws" THEN {"absent", "t1", "garbage"} ELSE {"absent", "t1"}

NoFilter == "nofilter"
BaseUrl == 0
NoCursor == -1

\* params = {}
EmptyParams == [top |-> FALSE, filter |-> NoFilter, offset |-> 0]

\* if last_run: params["$filter"] = ... / sysparm_query / (whenChanged>=...)
FilterAlways(c, lr) == IF lr = "absent" THEN "default" ELSE lr
FilterNever(c, lr) == NoFilter
FilterOf(c, lr) ==
  IF c \notin {"aws", "awsres", "github"} /\ lr # "absent" THEN lr ELSE NoFilter

\* The parameters of the first request of a scope.
BuildParams(c, lr) ==
  [top |-> c \notin {"aws", "github"}, filter |-> FilterOf(c, lr), offset |-> 0]

\* aws: last_run = parse_iso8601(last_run_str), None when absent or rejected
Watermark(lr) == IF lr = "t1" THEN 1 ELSE 0

\* ResourceARN absent from a mapping
NoArn == "noarn"

\* aws: if last_run and create_date < last_run: continue
\* awsres: if not resource_arn: continue
Keep(c, lr, r) ==
  /\ ~(c = "aws" /\ Watermark(lr) # 0 /\ r.created < Watermark(lr))
  /\ ~(c = "awsres" /\ r.id = NoArn)

\* The vendor's records: an id and, for aws, a CreateDate before (0) or not
\* before (1) the instant "t1".
Protos(c) ==
  CASE c = "aws" -> [id : Ids, created : {0, 1}]
    [] c = "awsres" -> [id : Ids \cup {NoArn}, created : {1}]
    [] OTHER -> [id : Ids, created : {1}]

PageSeqs(c) == UNION { [1..k -> Protos(c)] : k \in 0..MaxPageLen }

\* What one page request may be answered with.
\* A throttling answer (429, or 403 where the connector reads it so) carries
\* a wait hint in seconds (Retry-After; X-RateLimit-Reset less now), or none.
NoHint == -1
Hints == {NoHint, 5}
Responses(c) ==
  [kind : {"ok"}, recs : PageSeqs(c), next : BOOLEAN, hint : {NoHint}]
    \cup [kind : {"throttle"}, recs : {<< >>}, next : {FALSE}, hint : Hints]
    \cup { [kind |-> "error", recs |-> << >>, next |-> FALSE, hint |-> NoHint] }

\* handle_rate_limit: sleep_time = int(Retry-After) if given, else 60; github:
\* max(reset - now, 1) if X-RateLimit-Reset is given, else raise.
DefaultWait == 60
NoWait == -1
RateLimitWaitDefault(c, hint) == DefaultWait
RateLimitWait(c, hint) ==
  IF hint # NoHint THEN hint
  ELSE IF c = "github" THEN NoWait ELSE DefaultWait

\* What is kept of one answered request: the answer, the sleep before the
\* loop went on (0: none), and the number of records held afterwards.
Answer(resp, slept, held) ==
  [kind |-> resp.kind, hint |-> resp.hint, slept |-> slept, held |-> held]

\* A record as received: n is its position in the stream of fetched records.
Stamp(recs, base) ==
  [i \in 1..Len(recs) |->
     [id |-> recs[i].id, created |-> recs[i].created, n |-> base + i]]

ObjectTypeOf(c) ==
  CASE c = "awsres" -> "resource"
    [] c = "github" -> "untagged"
    [] OTHER -> "user"
SourceOf(c) ==
  CASE c \in {"ad", "github"} -> "untagged"
    [] c = "awsres" -> "aws"
    [] OTHER -> c

\* user["objectType"] = "user"; user["source"] = "azure"
Normalize(c, r) ==
  [id |-> r.id, n |-> r.n, created |-> r.created,
   objectType |-> ObjectTypeOf(c), source |-> SourceOf(c)]

\* for user in page: if id in dedup: continue; dedup.add(id); users.append(user)
RECURSIVE DedupLoop(_, _, _, _, _)
DedupLoop(c, lr, recs, out, seen) ==
  IF recs = << >> THEN [out |-> out, seen |-> seen]
  ELSE LET r == Head(recs)
       IN IF ~Keep(c, lr, r) \/ r.id \in seen
            THEN DedupLoop(c, lr, Tail(recs), out, seen)
            ELSE DedupLoop(c, lr, Tail(recs), Append(out, Normalize(c, r)),
                           seen \cup {r.id})

\* url = data.get("@odata.nextLink") / cookie = page_control...get("cookie")
NextCursorStuck(cur, resp) == cur + 1
NextCursor(cur, resp) == IF resp.next THEN cur + 1 ELSE NoCursor

\* if len(batch) < params.get("sysparm_limit", self.sysparm_limit): break
IsLastBatchOnlyEmpty(len, limit) == len = 0
IsLastBatch(len, limit) == len < limit

\* sysparm_limit of the scope
SysparmLimit == MaxPageLen

\* The vendor holds finitely many pages: the page that is the MaxPages-th of a
\* fetch carries no cursor (and, for servicenow, is short).
Answerable(c, resp) ==
  resp.kind = "ok" =>
    /\ (c = "servicenow" => ~resp.next)
    /\ (Len(got) + 1 >= MaxPages =>
          IF c = "servicenow" THEN Len(resp.recs) < SysparmLimit ELSE ~resp.next)

Request == [url |-> url, filter |-> params.filter, offset |-> params.offset,
            top |-> params.top]

PageInit ==
  /\ conn \in Connectors
  /\ lastRun \in LastRunValues(conn)
  /\ pPc = "start"
  /\ url = BaseUrl
  /\ params = EmptyParams
  /\ attempt = 0
  /\ throttles = 0
  /\ requests = << >>
  /\ got = << >>
  /\ raw = << >>
  /\ users = << >>
  /\ dedupIds = {}
  /\ instCache = {}
  /\ gaveUp = FALSE
  /\ runs = 1
  /\ answers = << >>

PageIdle ==
  /\ conn = "azure"
  /\ lastRun = "absent"
  /\ pPc = "start"
  /\ url = BaseUrl
  /\ params = EmptyParams
  /\ attempt = 0
  /\ throttles = 0
  /\ requests = << >>
  /\ got = << >>
  /\ raw = << >>
  /\ users = << >>
  /\ dedupIds = {}
  /\ instCache = {}
  /\ gaveUp = FALSE
  /\ runs = 1
  /\ answers = << >>

\* The head of the fetch: token / bind, then the first request's parameters.
\* azure, m365, servicenow: the token call raises out of the fetch;
\* ad: a failed bind is caught by the function's except and [] is returned.
StartFetch(ok) ==
  /\ pPc = "start"
  /\ (conn \in {"aws", "awsres"} => ok)
  /\ pPc' = IF ok THEN "loop" ELSE IF conn = "ad" THEN "returned" ELSE "raised"
  /\ gaveUp' = (~ok /\ conn = "ad")
  /\ params' = BuildParams(conn, lastRun)
  /\ url' = BaseUrl
  /\ UNCHANGED <<conn, lastRun, attempt, throttles, requests, answers, got, raw, users,
                 dedupIds, instCache, runs>>
  /\ UNCHANGED notPage

\* azure_connector._fetch_users: one attempt of _make_request inside the
\* while url loop.  A 429 or an HTTP error is an exception of the attempt; the
\* third failed attempt raises out of _make_request and the loop breaks.
AzureRequest(resp) ==
  /\ conn = "azure" /\ pPc = "loop"
  /\ Answerable(conn, resp)
  /\ requests' = Append(requests, Request)
  /\ answers' = Append(answers,
       Answer(resp, IF resp.kind = "ok" THEN 0 ELSE Delay(1, attempt),
              Len(raw) + Len(resp.recs)))
  /\ IF resp.kind = "ok"
       THEN LET page == Stamp(resp.recs, Len(raw))
                d == DedupLoop(conn, lastRun, page, users, dedupIds)
                nxt == NextCursor(url, resp)
            IN /\ users' = d.out
               /\ dedupIds' = d.seen
               /\ raw' = raw \o page
               /\ got' = Append(got, [len |-> Len(page), next |-> resp.next])
               /\ url' = nxt
               /\ params' = EmptyParams
               /\ attempt' = 0
               /\ pPc' = IF nxt = NoCursor THEN "returned" ELSE "loop"
               /\ UNCHANGED gaveUp
       ELSE /\ attempt' = attempt + 1
            /\ pPc' = IF attempt + 1 >= MaxAttempts THEN "returned" ELSE "loop"
            /\ gaveUp' = (attempt + 1 >= MaxAttempts)
            /\ UNCHANGED <<users, dedupIds, raw, got, url, params>>
  /\ UNCHANGED <<conn, lastRun, throttles, instCache, runs>>
  /\ UNCHANGED notPage

\* ad_connector._fetch_users: one attempt of _retry(conn.search, ...) inside the
\* while True loop; the loop breaks when the page control holds no cookie; an
\* exhausted _retry is caught by the function's except.
AdRequest(resp) ==
  /\ conn = "ad" /\ pPc = "loop"
  /\ Answerable(conn, resp)
  /\ requests' = Append(requests, Request)
  /\ answers' = Append(answers,
       Answer(resp, IF resp.kind = "ok" THEN 0 ELSE Delay(1, attempt),
              Len(raw) + Len(resp.recs)))
  /\ IF resp.kind = "ok"
       THEN LET page == Stamp(resp.recs, Len(raw))
                d == DedupLoop(conn, lastRun, page, users, dedupIds)
                nxt == NextCursor(url, resp)
            IN /\ users' = d.out
               /\ dedupIds' = d.seen
               /\ raw' = raw \o page
               /\ got' = Append(got, [len |-> Len(page), next |-> resp.next])
               /\ url' = nxt
               /\ attempt' = 0
               /\ pPc' = IF nxt = NoCursor THEN "returned" ELSE "loop"
               /\ UNCHANGED <<gaveUp, params>>
       ELSE /\ attempt' = attempt + 1
            /\ pPc' = IF attempt + 1 >= MaxAttempts THEN "returned" ELSE "loop"
            /\ gaveUp' = (attempt + 1 >= MaxAttempts)
            /\ UNCHANGED <<users, dedupIds, raw, got, url, params>>
  /\ UNCHANGED <<conn, lastRun, throttles, instCache, runs>>
  /\ UNCHANGED notPage

\* aws_connector._fetch_users: one page of paginator.paginate(); boto3 follows
\* the marker itself; a ClientError is caught and the users so far returned.
AwsRequest(resp) ==
  /\ conn = "aws" /\ pPc = "loop"
  /\ resp.kind # "throttle"
  /\ Answerable(conn, resp)
  /\ requests' = Append(requests, Request)
  /\ answers' = Append(answers, Answer(resp, 0, Len(raw) + Len(resp.recs)))
  /\ IF resp.kind = "ok"
       THEN LET page == Stamp(resp.recs, Len(raw))
                d == DedupLoop(conn, lastRun, page, users, dedupIds)
                nxt == NextCursor(url, resp)
            IN /\ users' = d.out
               /\ dedupIds' = d.seen
               /\ raw' = raw \o page
               /\ got' = Append(got, [len |-> Len(page), next |-> resp.next])
               /\ url' = nxt
               /\ pPc' = IF nxt = NoCursor THEN "returned" ELSE "loop"
               /\ UNCHANGED gaveUp
       ELSE /\ pPc' = "returned"
            /\ gaveUp' = TRUE
            /\ UNCHANGED <<users, dedupIds, raw, got, url>>
  /\ UNCHANGED <<conn, lastRun, params, attempt, throttles, instCache, runs>>
  /\ UNCHANGED notPage

\* AWSResourceConnector._fetch_resources_for_region: one get_resources call of
\* the while True loop; mappings are checked against self.cache as they come;
\* the loop breaks when the response holds no PaginationToken; any exception
\* is caught and the resources so far are returned.
AwsResRequest(resp) ==
  /\ conn = "awsres" /\ pPc = "loop"
  /\ resp.kind # "throttle"
  /\ Answerable(conn, resp)
  /\ requests' = Append(requests, Request)
  /\ answers' = Append(answers, Answer(resp, 0, Len(raw) + Len(resp.recs)))
  /\ IF resp.kind = "ok"
       THEN LET page == Stamp(resp.recs, Len(raw))
                d == DedupLoop(conn, lastRun, page, users, instCache)
                nxt == NextCursor(url, resp)
            IN /\ users' = d.out
               /\ instCache' = d.seen
               /\ raw' = raw \o page
               /\ got' = Append(got, [len |-> Len(page), next |-> resp.next])
               /\ url' = nxt
               /\ pPc' = IF nxt = NoCursor THEN "returned" ELSE "loop"
               /\ UNCHANGED gaveUp
       ELSE /\ pPc' = "returned"
            /\ gaveUp' = TRUE
            /\ UNCHANGED <<users, instCache, raw, got, url>>
  /\ UNCHANGED <<conn, lastRun, params, attempt, throttles, dedupIds, runs>>
  /\ UNCHANGED notPage

\* M365Connector.fetch_paginated_data: one turn of the while url loop.  A
\* throttling response sleeps and repeats the request; raise_for_status raises
\* out of the fetch; a page extends data and replaces url and params.
M365Request(resp) ==
  /\ conn = "m365" /\ pPc = "loop"
  /\ Answerable(conn, resp)
  /\ (resp.kind = "throttle" => throttles < MaxThrottles)
  /\ requests' = Append(requests, Request)
  /\ answers' = Append(answers,
       Answer(resp, IF resp.kind = "throttle" THEN RateLimitWait(conn, resp.hint) ELSE 0,
              Len(raw) + Len(resp.recs)))
  /\ CASE resp.kind = "ok" ->
            LET page == Stamp(resp.recs, Len(raw))
                nxt == NextCursor(url, resp)
            IN /\ raw' = raw \o page
               /\ got' = Append(got, [len |-> Len(page), next |-> resp.next])
               /\ url' = nxt
               /\ params' = EmptyParams
               /\ pPc' = IF nxt = NoCursor THEN "dedup" ELSE "loop"
               /\ UNCHANGED throttles
       [] resp.kind = "throttle" ->
            /\ throttles' = throttles + 1
            /\ UNCHANGED <<raw, got, url, params, pPc>>
       [] resp.kind = "error" ->
            /\ pPc' = "raised"
            /\ UNCHANGED <<raw, got, url, params, throttles>>
  /\ UNCHANGED <<conn, lastRun, attempt, users, dedupIds, instCache, gaveUp, runs>>
  /\ UNCHANGED notPage

\* ServiceNowConnector.fetch_paginated_data: one turn of the while url loop.
\* The loop ends on a batch shorter than sysparm_limit, else the offset moves on.
ServiceNowRequest(resp) ==
  /\ conn = "servicenow" /\ pPc = "loop"
  /\ Answerable(conn, resp)
  /\ (resp.kind = "throttle" => throttles < MaxThrottles)
  /\ requests' = Append(requests, Request)
  /\ answers' = Append(answers,
       Answer(resp, IF resp.kind = "throttle" THEN RateLimitWait(conn, resp.hint) ELSE 0,
              Len(raw) + Len(resp.recs)))
  /\ CASE resp.kind = "ok" ->
            LET page == Stamp(resp.recs, Len(raw))
                last == IsLastBatch(Len(page), SysparmLimit)
            IN /\ raw' = raw \o page
               /\ got' = Append(got, [len |-> Len(page), next |-> resp.next])
               /\ params' = IF last THEN params
                            ELSE [params EXCEPT !.offset = params.offset + SysparmLimit]
               /\ pPc' = IF last THEN "dedup" ELSE "loop"
               /\ UNCHANGED throttles
       [] resp.kind = "throttle" ->
            /\ throttles' = throttles + 1
            /\ UNCHANGED <<raw, got, params, pPc>>
       [] resp.kind = "error" ->
            /\ pPc' = "raised"
            /\ UNCHANGED <<raw, got, params, throttles>>
  /\ UNCHANGED <<conn, lastRun, url, attempt, users, dedupIds, instCache, gaveUp, runs>>
  /\ UNCHANGED notPage

\* GitHubConnector.fetch_paginated_data: one turn of the while url loop; the
\* request has no parameters.  A 403 / 429 with X-RateLimit-Reset sleeps and
\* repeats the request; without the header handle_rate_limit raises out of the
\* fetch, as raise_for_status does.
GithubRequest(resp) ==
  /\ conn = "github" /\ pPc = "loop"
  /\ Answerable(conn, resp)
  /\ (resp.kind = "throttle" => throttles < MaxThrottles)
  /\ requests' = Append(requests, Request)
  /\ answers' = Append(answers,
       Answer(resp, IF resp.kind = "throttle" /\ RateLimitWait(conn, resp.hint) # NoWait
                      THEN RateLimitWait(conn, resp.hint) ELSE 0,
              Len(raw) + Len(resp.recs)))
  /\ CASE resp.kind = "ok" ->
            LET page == Stamp(resp.recs, Len(raw))
                nxt == NextCursor(url, resp)
            IN /\ raw' = raw \o page
               /\ got' = Append(got, [len |-> Len(page), next |-> resp.next])
               /\ url' = nxt
               /\ pPc' = IF nxt = NoCursor THEN "dedup" ELSE "loop"
               /\ UNCHANGED throttles
       [] resp.kind = "throttle" ->
            /\ throttles' = throttles + 1
            /\ pPc' = IF RateLimitWait(conn, resp.hint) = NoWait THEN "raised" ELSE "loop"
            /\ UNCHANGED <<raw, got, url>>
       [] resp.kind = "error" ->
            /\ pPc' = "raised"
            /\ UNCHANGED <<raw, got, url, throttles>>
  /\ UNCHANGED <<conn, lastRun, params, attempt, users, dedupIds, instCache, gaveUp, runs>>
  /\ UNCHANGED notPage

\* _async_fetch_identities of the SaaS connectors after fetch_paginated_data
\* returned: every record is checked against self.cache, then mapped.
DedupPass ==
  /\ conn \in SaasStyle /\ pPc = "dedup"
  /\ LET d == DedupLoop(conn, lastRun, raw, << >>, instCache)
     IN /\ users' = d.out
        /\ instCache' = d.seen
  /\ pPc' = "returned"
  /\ UNCHANGED <<conn, lastRun, url, params, attempt, throttles, requests, answers, got,
                 raw, dedupIds, gaveUp, runs>>
  /\ UNCHANGED notPage

\* fetch_identities is called again on the same connector: every local of the
\* call starts afresh, self.cache of a SaaS connector instance stays.
FetchAgain ==
  /\ pPc \in {"returned", "raised"}
  /\ runs < MaxRuns
  /\ runs' = runs + 1
  /\ pPc' = "start"
  /\ url' = BaseUrl
  /\ params' = EmptyParams
  /\ attempt' = 0
  /\ throttles' = 0
  /\ requests' = << >>
  /\ answers' = << >>
  /\ got' = << >>
  /\ raw' = << >>
  /\ users' = << >>
  /\ dedupIds' = {}
  /\ gaveUp' = FALSE
  /\ UNCHANGED <<conn, lastRun, instCache>>
  /\ UNCHANGED notPage

PageNext ==
  \/ \E ok \in BOOLEAN : StartFetch(ok)
  \/ \E resp \in Responses(conn) : AzureRequest(resp)
  \/ \E resp \in Responses(conn) : AdRequest(resp)
  \/ \E resp \in Responses(conn) : AwsRequest(resp)
  \/ \E resp \in Responses(conn) : AwsResRequest(resp)
  \/ \E resp \in Responses(conn) : M365Request(resp)
  \/ \E resp \in Responses(conn) : ServiceNowRequest(resp)
  \/ \E resp \in Responses(conn) : GithubRequest(resp)
  \/ DedupPass
  \/ FetchAgain

(***************************************************************************)
(* Scope fan-out: fetch_identities of azure_connector (tenants, a users and *)
(* a roles task per tenant on a ThreadPoolExecutor), of aws_connector      *)
(* (regions, likewise) and LinuxUnixConnector._async_fetch_identities      *)
(* (hosts, one coroutine per host).  All tasks are awaited with            *)
(* asyncio.gather(..., return_exceptions=True) and merged in task order.   *)
(***************************************************************************)
Kinds == {"azure", "aws", "ad", "linuxunix"}
PoolKinds == {"azure", "aws", "ad"}

\* max_workers = config.get("max_workers", 10)
DefaultWorkers == 10
WorkerLimits == {1, 2, DefaultWorkers}

\* The configuration's list key: not given, or one of these lists.
ScopeLists == { [i \in 1..k |-> i] : k \in 0..NumScopes }
ScopeConfigs ==
  { [given |-> FALSE, list |-> << >>] }
    \cup { [given |-> TRUE, list |-> l] : l \in ScopeLists }

\* The scope that stands for the configuration itself.
SelfScope == 0

\* tenants = config.get("tenants"); if not tenants: tenants = [config]
\* regions likewise; ad: if domains is None: domains = [config];
\* self.hosts = config.get("hosts", [])
ExpandScopes(k, cfg) ==
  CASE k \in {"azure", "aws"} ->
         IF cfg.list = << >> THEN <<SelfScope>> ELSE cfg.list
    [] k = "ad" -> IF cfg.given THEN cfg.list ELSE <<SelfScope>>
    [] OTHER -> cfg.list

IdNames == <<"A", "B", "C", "D", "E", "F">>
UserNames == <<"root", "alice">>

\* The vendor's data.  Scope s answers with two pages, ids s+1 | s+2, s+1: the
\* result sets of neighbouring scopes overlap and the second page repeats an id
\* of the first.  Every host lists the same two user names.
UserPages(k, sc) ==
  IF k = "linuxunix"
    THEN << [j \in 1..Len(UserNames) |-> [host |-> sc, name |-> UserNames[j]]] >>
    ELSE << << [host |-> 0, name |-> IdNames[sc + 1]] >>,
            << [host |-> 0, name |-> IdNames[sc + 2]],
               [host |-> 0, name |-> IdNames[sc + 1]] >> >>
RolePages(sc) == << << [host |-> sc, name |-> "role"] >> >>

\* The second task of a scope: _fetch_roles, ad: _fetch_computers.
SecondTask(k) == IF k = "ad" THEN "computers" ELSE "roles"

TaskPages(k, t) ==
  IF t.what \in {"roles", "computers"} THEN RolePages(t.scope)
  ELSE UserPages(k, t.scope)

ObjectTypeOfTask(t) ==
  CASE t.what = "roles" -> "role"
    [] t.what = "computers" -> "computer"
    [] OTHER -> "user"

\* for user in page: if id in dedup_ids: continue; add; tag; append
RECURSIVE ScopeDedup(_, _, _, _, _)
ScopeDedup(k, t, recs, out, seen) ==
  IF recs = << >> THEN [out |-> out, seen |-> seen]
  ELSE LET r == Head(recs)
       IN IF r \in seen
            THEN ScopeDedup(k, t, Tail(recs), out, seen)
            ELSE ScopeDedup(k, t, Tail(recs),
                            Append(out, [id |-> r, objectType |-> ObjectTypeOfTask(t),
                                         source |-> SourceOf(k), scope |-> t.scope]),
                            seen \cup {r})

NewTask(sc, what) ==
  [scope |-> sc, what |-> what, pc |-> "queued", page |-> 1, acc |-> << >>,
   seen |-> {}, failed |-> FALSE]

\* for tenant_config in tenants: run_in_executor(_fetch_users), (_fetch_roles)
\* tasks = [self.fetch_host_data(host) for host in self.hosts]
BuildTasks(k, scopes) ==
  IF k \in PoolKinds
    THEN [i \in 1..(2 * Len(scopes)) |->
            NewTask(scopes[(i + 1) \div 2],
                    IF i % 2 = 1 THEN "users" ELSE SecondTask(k))]
    ELSE [i \in 1..Len(scopes) |-> NewTask(scopes[i], "host")]

RECURSIVE MergeReturned(_)
MergeReturned(ts) ==
  IF ts = << >> THEN << >>
  ELSE (IF Head(ts).pc = "returned" THEN Head(ts).acc ELSE << >>)
         \o MergeReturned(Tail(ts))

\* results = await asyncio.gather(*tasks, return_exceptions=True); then
\* for result in results: if isinstance(result, Exception): log, else extend
GatherPropagating(ts) ==
  IF \E i \in DOMAIN ts : ts[i].pc = "raised"
    THEN [pc |-> "raised", merged |-> << >>]
    ELSE [pc |-> "returned", merged |-> MergeReturned(ts)]
GatherResult(ts) == [pc |-> "returned", merged |-> MergeReturned(ts)]

ScopeInit ==
  /\ kind \in Kinds
  /\ cfgScopes \in ScopeConfigs
  /\ fiPc = "init"
  /\ tasks = << >>
  /\ selfCache = {}
  /\ merged = << >>
  /\ maxWorkers \in WorkerLimits

\* The tasks that share the executor of task i: azure and aws build one
\* ThreadPoolExecutor(max_workers) per fetch_identities, ad builds one per
\* domain; the coroutines of linuxunix share nothing.
SameExecutor(ts, i) ==
  CASE kind = "ad" -> { j \in DOMAIN ts : ts[j].scope = ts[i].scope }
    [] kind = "linuxunix" -> {i}
    [] OTHER -> DOMAIN ts

\* A worker thread of the task's executor is free.
WorkerFree(ts, i) ==
  Cardinality({ j \in SameExecutor(ts, i) : ts[j].pc \in {"running", "hung"} })
    < maxWorkers

ScopeIdle ==
  /\ kind = "azure"
  /\ cfgScopes = [given |-> FALSE, list |-> << >>]
  /\ fiPc = "init"
  /\ tasks = << >>
  /\ selfCache = {}
  /\ merged = << >>
  /\ maxWorkers = DefaultWorkers

\* fetch_identities up to the await: the scopes are expanded and every scope
\* task is created.
FanOut ==
  /\ fiPc = "init"
  /\ tasks' = BuildTasks(kind, ExpandScopes(kind, cfgScopes))
  /\ fiPc' = "gather"
  /\ UNCHANGED <<kind, cfgScopes, selfCache, merged, maxWorkers>>
  /\ UNCHANGED notScope

\* A free pool thread takes a scope task and runs it up to its first request.
\* azure: _fetch_users / _fetch_roles begin with get_graph_token, outside any
\* try, so a failed exchange raises out of the task; ad: a failed bind is
\* caught by the task, which returns [].
StartTask(i, ok) ==
  /\ fiPc = "gather" /\ kind \in PoolKinds
  /\ i \in DOMAIN tasks /\ tasks[i].pc = "queued"
  /\ WorkerFree(tasks, i)
  /\ (kind = "aws" => ok)
  /\ tasks' = [tasks EXCEPT
       ![i].pc = IF ok THEN "running" ELSE IF kind = "ad" THEN "returned" ELSE "raised",
       ![i].failed = ~ok]
  /\ UNCHANGED <<kind, cfgScopes, fiPc, selfCache, merged, maxWorkers>>
  /\ UNCHANGED notScope

\* One page of a running scope task.  A page that cannot be fetched (azure:
\* _make_request gave up; aws: ClientError) ends the loop and the task returns
\* what it has.
TaskPage(i, ok) ==
  /\ fiPc = "gather" /\ kind \in PoolKinds
  /\ i \in DOMAIN tasks /\ tasks[i].pc = "running"
  /\ LET t == tasks[i]
         pages == TaskPages(kind, t)
         d == ScopeDedup(kind, t, pages[t.page], t.acc, t.seen)
     IN tasks' = [tasks EXCEPT ![i] =
          IF ok
            THEN [t EXCEPT !.acc = d.out, !.seen = d.seen, !.page = t.page + 1,
                           !.pc = IF t.page = Len(pages) THEN "returned" ELSE "running"]
            ELSE [t EXCEPT !.pc = "returned", !.failed = TRUE]]
  /\ UNCHANGED <<kind, cfgScopes, fiPc, selfCache, merged, maxWorkers>>
  /\ UNCHANGED notScope

\* aws: an exception other than ClientError raises out of the task, wherever the
\* task is.
TaskCrash(i) ==
  /\ fiPc = "gather" /\ kind = "aws"
  /\ i \in DOMAIN tasks /\ tasks[i].pc = "running"
  /\ tasks' = [tasks EXCEPT ![i].pc = "raised", ![i].failed = TRUE]
  /\ UNCHANGED <<kind, cfgScopes, fiPc, selfCache, merged, maxWorkers>>
  /\ UNCHANGED notScope

\* LinuxUnixConnector.fetch_host_data up to its first await: gather starts
\* the coroutine of every host, and each runs until it waits for its
\* connection.
HostStart(i) ==
  /\ fiPc = "gather" /\ kind = "linuxunix"
  /\ i \in DOMAIN tasks /\ tasks[i].pc = "queued"
  /\ tasks' = [tasks EXCEPT ![i].pc = "running"]
  /\ UNCHANGED <<kind, cfgScopes, fiPc, selfCache, merged, maxWorkers>>
  /\ UNCHANGED notScope

\* LinuxUnixConnector.fetch_host_data from the connection on: read passwd and
\* group, then tag every user and check host:username against self.cache; any
\* exception is caught and what was collected is returned.
HostFetch(i, ok) ==
  /\ fiPc = "gather" /\ kind = "linuxunix"
  /\ i \in DOMAIN tasks /\ tasks[i].pc = "running"
  /\ LET t == tasks[i]
         d == ScopeDedup(kind, t, UserPages(kind, t.scope)[1], << >>, selfCache)
     IN IF ok
          THEN /\ tasks' = [tasks EXCEPT ![i] = [t EXCEPT !.acc = d.out, !.pc = "returned"]]
               /\ selfCache' = d.seen
          ELSE /\ tasks' = [tasks EXCEPT ![i].pc = "returned", ![i].failed = TRUE]
               /\ UNCHANGED selfCache
  /\ UNCHANGED <<kind, cfgScopes, fiPc, merged, maxWorkers>>
  /\ UNCHANGED notScope

\* The await returns once every task has finished; the results are merged.
Gather ==
  /\ fiPc = "gather"
  /\ \A i \in DOMAIN tasks : tasks[i].pc \in {"returned", "raised"}
  /\ fiPc' = GatherResult(tasks).pc
  /\ merged' = GatherResult(tasks).merged
  /\ UNCHANGED <<kind, cfgScopes, tasks, selfCache, maxWorkers>>
  /\ UNCHANGED notScope

ScopeNext ==
  \/ FanOut
  \/ \E i \in 1..(2 * NumScopes), ok \in BOOLEAN : StartTask(i, ok)
  \/ \E i \in 1..(2 * NumScopes), ok \in BOOLEAN : TaskPage(i, ok)
  \/ \E i \in 1..(2 * NumScopes) : TaskCrash(i)
  \/ \E i \in 1..(2 * NumScopes) : HostStart(i)
  \/ \E i \in 1..(2 * NumScopes), ok \in BOOLEAN : HostFetch(i, ok)
  \/ Gather

\* A running scope task whose vendor call never answers: requests.get
\* (azure) and the ldap3 connection (ad) are given no timeout.  The task
\* keeps its worker thread and never returns.
TaskHang(i) ==
  /\ fiPc = "gather" /\ kind \in {"azure", "ad"}
  /\ i \in DOMAIN tasks /\ tasks[i].pc = "running"
  /\ tasks' = [tasks EXCEPT ![i].pc = "hung"]
  /\ UNCHANGED <<kind, cfgScopes, fiPc, selfCache, merged, maxWorkers>>
  /\ UNCHANGED notScope

\* A step of task i that the executor and the event loop owe it: leaving
\* the queue when a worker is free, and the next step of a task whose vendor
\* answers.
TaskProgress(i) ==
  \/ \E ok \in BOOLEAN : StartTask(i, ok)
  \/ \E ok \in BOOLEAN : TaskPage(i, ok)
  \/ TaskCrash(i)
  \/ HostStart(i)
  \/ \E ok \in BOOLEAN : HostFetch(i, ok)

HangNext ==
  \/ ScopeNext
  \/ \E i \in 1..(2 * NumScopes) : TaskHang(i)

\* Threads and coroutines are scheduled fairly; no vendor is obliged to
\* answer.
HangFairness ==
  /\ WF_vars(FanOut)
  /\ WF_vars(Gather)
  /\ \A i \in 1..(2 * NumScopes) : WF_vars(TaskProgress(i))

(***************************************************************************)
(* get_graph_token called from several pool threads.  fetch_identities     *)
(* hands _fetch_users and _fetch_roles of every tenant to the              *)
(* ThreadPoolExecutor, and each begins with get_graph_token(tenant_config). *)
(* The function takes no lock: a thread reads _token_cache, and on a miss  *)
(* goes into the blocking credential exchange, during which other threads  *)
(* run.                                                                    *)
(***************************************************************************)
CallerIds == 1..NumCallers

NewCaller(key) == [key |-> key, pc |-> "idle", token |-> 0, raced |-> {}]

\* _token_cache when the tasks start: empty, or an entry that has expired.
StartCaches ==
  { << >> } \cup
  { [k \in {key} |-> [access_token |-> 0, expires_at |-> 0]] : key \in CacheKeys }

CallersInit ==
  /\ callers \in [CallerIds -> { NewCaller(k) : k \in CacheKeys }]
  /\ exchanges = [k \in CacheKeys |-> 0]

CallersIdle ==
  /\ callers = [t \in CallerIds |-> NewCaller("k1")]
  /\ exchanges = [k \in CacheKeys |-> 0]

\* Thread t runs get_graph_token up to the cache check: a valid entry is
\* returned, otherwise the thread enters the credential exchange.
CallerCheck(t) ==
  /\ callers[t].pc = "idle"
  /\ LET key == callers[t].key
     IN callers' = [callers EXCEPT ![t] =
          IF CacheValid(tokenCache, key, clock)
            THEN [@ EXCEPT !.pc = "returned",
                           !.token = tokenCache[key].access_token]
            ELSE [@ EXCEPT !.pc = "exchanging",
                           !.raced = { u \in CallerIds \ {t} :
                                         /\ callers[u].key = key
                                         /\ callers[u].pc = "exchanging" }]]
  /\ UNCHANGED <<tokenCache, issued, exchanges>>
  /\ UNCHANGED notCallers

\* The exchange of thread t answers: the thread stores and returns its token,
\* or raises.
CallerExchange(t, result) ==
  /\ callers[t].pc = "exchanging"
  /\ LET key == callers[t].key
         tok == issued + 1
         ok == result.kind = "token"
     IN /\ tokenCache' = CacheAfterExchange(tokenCache, key, clock, result, tok)
        /\ issued' = IF ok THEN tok ELSE issued
        /\ exchanges' = [exchanges EXCEPT ![key] = @ + 1]
        /\ callers' = [callers EXCEPT ![t].pc = IF ok THEN "returned" ELSE "raised",
                                      ![t].token = IF ok THEN tok ELSE 0]
  /\ UNCHANGED notCallers

CallersNext ==
  \/ \E t \in CallerIds : CallerCheck(t)
  \/ \E t \in CallerIds, result \in ExchangeResults : CallerExchange(t, result)

(***************************************************************************)
(* The SaaS plugin loader: saas_connector_orchestrator.load_saas_connectors *)
(* and its nested coroutine load_plugin.  Names are sequences of           *)
(* characters, so that str.capitalize() is computed and not assumed.       *)
(***************************************************************************)
LowerCase == <<"a", "b", "c", "d", "e", "f", "g", "h", "i", "j", "k", "l", "m",
               "n", "o", "p", "q", "r", "s", "t", "u", "v", "w", "x", "y", "z">>
UpperCase == <<"A", "B", "C", "D", "E", "F", "G", "H", "I", "J", "K", "L", "M",
               "N", "O", "P", "Q", "R", "S", "T", "U", "V", "W", "X", "Y", "Z">>

Upper(c) ==
  IF \E i \in DOMAIN LowerCase : LowerCase[i] = c
  THEN UpperCase[CHOOSE i \in DOMAIN LowerCase : LowerCase[i] = c]
  ELSE c

Lower(c) ==
  IF \E i \in DOMAIN UpperCase : UpperCase[i] = c
  THEN LowerCase[CHOOSE i \in DOMAIN UpperCase : UpperCase[i] = c]
  ELSE c

\* str.capitalize(): first character upper-cased, every other one lower-cased.
Capitalize(s) == [i \in DOMAIN s |-> IF i = 1 THEN Upper(s[i]) ELSE Lower(s[i])]

\* The plugin names of plugins/saas/<name>_connector.py, and one name
\* without a file.
Github == <<"g", "i", "t", "h", "u", "b">>
M365 == <<"m", "3", "6", "5">>
Salesforce == <<"s", "a", "l", "e", "s", "f", "o", "r", "c", "e">>
Servicenow == <<"s", "e", "r", "v", "i", "c", "e", "n", "o", "w">>
Okta == <<"o", "k", "t", "a">>

PluginFiles == {Github, M365, Salesforce, Servicenow}
PluginNames == PluginFiles \cup {Okta}

ConnectorSuffix == <<"C", "o", "n", "n", "e", "c", "t", "o", "r">>

\* The connector class each plugin module defines.
DefinedClass(name) ==
  CASE name = Github -> <<"G", "i", "t", "H", "u", "b">> \o ConnectorSuffix
    [] name = M365 -> <<"M", "3", "6", "5">> \o ConnectorSuffix
    [] name = Salesforce ->
         <<"S", "a", "l", "e", "s", "f", "o", "r", "c", "e">> \o ConnectorSuffix
    [] name = Servicenow ->
         <<"S", "e", "r", "v", "i", "c", "e", "N", "o", "w">> \o ConnectorSuffix

\* class_name = plugin_name.capitalize() + "Connector"
ClassNameOf(name) == Capitalize(name) \o ConnectorSuffix

\* One entry of the mapping: 'enabled' true, false or omitted, a 'config'
\* block or none, and whether the connector's constructor (validate_config,
\* initialize) succeeds on that block.
PluginSettings ==
  [enabled : {"true", "false", "omitted"}, hasConfig : BOOLEAN, instOk : BOOLEAN]

EmptyMapping == [n \in {} |-> 0]

Mappings ==
  UNION { [names -> PluginSettings] :
            names \in { ns \in SUBSET PluginNames : Cardinality(ns) <= MaxPlugins } }

\* saas_config = config.get("saas", {})
SaasSection(config) == IF config.wrapped THEN config.mapping ELSE EmptyMapping

None == [class |-> << >>, plugin |-> << >>]

\* async def load_plugin(plugin_name, plugin_settings)
LoadPlugin(name, settings, canImport) ==
  IF settings.enabled = "false" THEN None
  ELSE IF ~settings.hasConfig THEN None
  ELSE IF name \notin PluginFiles THEN None
  ELSE IF ~canImport THEN None
  ELSE IF ClassNameOf(name) # DefinedClass(name) THEN None
  ELSE IF ~settings.instOk THEN None
  ELSE [class |-> ClassNameOf(name), plugin |-> name]

LoaderInit ==
  /\ ldConfig \in [wrapped : BOOLEAN, mapping : Mappings]
  /\ loopRunning \in BOOLEAN
  /\ importable \in BOOLEAN
  /\ ldPc = "init"
  /\ ldTasks = {}
  /\ loaded = EmptyMapping
  /\ connectors = << >>

LoaderIdle ==
  /\ ldConfig = [wrapped |-> FALSE, mapping |-> EmptyMapping]
  /\ loopRunning = FALSE
  /\ importable = TRUE
  /\ ldPc = "init"
  /\ ldTasks = {}
  /\ loaded = EmptyMapping
  /\ connectors = << >>

\* load_saas_connectors up to its return or its exception: no "saas" section
\* returns the empty list; asyncio.get_running_loop() raises RuntimeError
\* outside a running loop; inside one, asyncio.gather schedules the
\* coroutines and loop.run_until_complete raises RuntimeError because the
\* loop is already running.
LoadSaasConnectors ==
  /\ ldPc = "init"
  /\ IF DOMAIN SaasSection(ldConfig) = {}
       THEN /\ ldPc' = "returned"
            /\ ldTasks' = {}
       ELSE /\ ldPc' = "raised"
            /\ ldTasks' = IF loopRunning THEN DOMAIN SaasSection(ldConfig) ELSE {}
  /\ connectors' = << >>
  /\ UNCHANGED <<ldConfig, loopRunning, importable, loaded>>
  /\ UNCHANGED notLoader

\* The running loop executes one scheduled load_plugin coroutine.
PluginTask(name) ==
  /\ name \in ldTasks
  /\ ldTasks' = ldTasks \ {name}
  /\ loaded' = [n \in DOMAIN loaded \cup {name} |->
                  IF n = name
                  THEN LoadPlugin(name, SaasSection(ldConfig)[name], importable)
                  ELSE loaded[n]]
  /\ UNCHANGED <<ldConfig, loopRunning, importable, ldPc, connectors>>
  /\ UNCHANGED notLoader

LoaderNext ==
  \/ LoadSaasConnectors
  \/ \E name \in PluginNames : PluginTask(name)

(***************************************************************************)
(* One run of the service: main.main and main.load_identity_connectors,    *)
(* with the publisher of kafka_producer.KafkaProducerWrapper.              *)
(***************************************************************************)
\* connectors/<name>_connector.py
ConnectorModules == {"ad", "aws", "azure", "entraid", "gcp", "linuxunix"}

\* A module placed in the connectors directory whose fetch_identities is the
\* blocking function of one argument that load_identity_connectors calls.
DropIn == "custom"

\* What connectors_dir.glob("*.py") can yield.
Directories == {ConnectorModules, ConnectorModules \cup {DropIn}}

\* The module-level fetch_identities of each connector module: an async def
\* taking the config, a def taking no argument, none at all, or a blocking
\* def taking the config.
FetchShape(m) ==
  CASE m \in {"ad", "aws", "azure", "gcp"} -> "async"
    [] m = "entraid" -> "noargs"
    [] m = "linuxunix" -> "absent"
    [] m = DropIn -> "blocking"

NoModule == "nomodule"

\* What the vendor behind a connector answers: an error, or n records.
VendorStates ==
  {[ok |-> FALSE, n |-> 0]} \cup {[ok |-> TRUE, n |-> k] : k \in 1..MaxRecords}

Records(m, n) == [i \in 1..n |-> [module |-> m, id |-> i]]

\* records = module.fetch_identities(module_config); identity_data.extend(records):
\* the call of an async def returns a coroutine whose body never starts and
\* which extend cannot iterate (TypeError); the call of a def without
\* parameters raises TypeError; a blocking def runs and returns its list or
\* raises.
FetchCall(m, v) ==
  CASE FetchShape(m) \in {"async", "noargs"} ->
         [raised |-> TRUE, records |-> << >>]
    [] FetchShape(m) = "blocking" ->
         [raised |-> ~v.ok, records |-> IF v.ok THEN Records(m, v.n) ELSE << >>]

RunMappings ==
  { EmptyMapping,
    [n \in {M365} |-> [enabled |-> "true", hasConfig |-> TRUE, instOk |-> TRUE]] }

NoProducer == [created |-> FALSE, started |-> FALSE, flushed |-> FALSE, closed |-> FALSE]

\* kafka_config.get("identity_topic", "discovery-identity")
IdentityTopic == "discovery-identity"

RunInit ==
  /\ runPc = "start"
  /\ pending \in Directories
  /\ identityData = << >>
  /\ saasMapping \in RunMappings
  /\ saasInvoked = {}
  /\ failedMods = {}
  /\ report = << >>
  /\ current = NoModule
  /\ vendor = EmptyMapping
  /\ fetchStarted = {}
  /\ producer = NoProducer
  /\ sendIdx = 1
  /\ delivered = << >>
  /\ dropped = << >>

RunIdle ==
  /\ runPc = "start"
  /\ pending = ConnectorModules
  /\ identityData = << >>
  /\ saasMapping = EmptyMapping
  /\ saasInvoked = {}
  /\ failedMods = {}
  /\ report = << >>
  /\ current = NoModule
  /\ vendor = EmptyMapping
  /\ fetchStarted = {}
  /\ producer = NoProducer
  /\ sendIdx = 1
  /\ delivered = << >>
  /\ dropped = << >>

\* main up to load_identity_connectors: a configuration or a producer that
\* cannot be set up ends the process with sys.exit(1).  The constructor of
\* the wrapper leaves started = False.
RunStart(configOk, producerOk) ==
  /\ runPc = "start"
  /\ runPc' = IF configOk /\ producerOk THEN "connectors" ELSE "exit1"
  /\ producer' = IF configOk /\ producerOk
                   THEN [producer EXCEPT !.created = TRUE]
                   ELSE producer
  /\ UNCHANGED <<pending, identityData, saasMapping, saasInvoked, failedMods, report, current,
                 vendor, fetchStarted, sendIdx, delivered, dropped>>
  /\ UNCHANGED notRun

\* One iteration of the loop over connectors_dir.glob("*.py"), in the order
\* the directory yields.  exec_module is outside every try: an import that
\* fails leaves load_identity_connectors and main.  A blocking
\* fetch_identities is entered and the loop waits in it; the other shapes
\* are over at once.
LoadModule(m, imports, v) ==
  /\ runPc = "connectors"
  /\ m \in pending
  /\ pending' = pending \ {m}
  /\ IF ~imports
       THEN /\ runPc' = "aborted"
            /\ failedMods' = failedMods \cup {m}
            /\ UNCHANGED <<current, vendor, fetchStarted>>
       ELSE IF FetchShape(m) = "absent"
       THEN /\ runPc' = IF pending' = {} THEN "saas" ELSE "connectors"
            /\ UNCHANGED <<failedMods, current, vendor, fetchStarted>>
       ELSE IF FetchShape(m) = "blocking"
       THEN /\ runPc' = "fetching"
            /\ current' = m
            /\ fetchStarted' = fetchStarted \cup {m}
            /\ UNCHANGED <<failedMods, vendor>>
       ELSE /\ runPc' = IF pending' = {} THEN "saas" ELSE "connectors"
            /\ vendor' = [x \in DOMAIN vendor \cup {m} |->
                            IF x = m THEN v ELSE vendor[x]]
            /\ failedMods' = IF FetchCall(m, v).raised
                               THEN failedMods \cup {m}
                               ELSE failedMods
            /\ UNCHANGED <<current, fetchStarted>>
  /\ UNCHANGED <<identityData, saasMapping, saasInvoked, report, producer, sendIdx, delivered,
                 dropped>>
  /\ UNCHANGED notRun

\* The blocking fetch_identities of the module in progress returns its
\* records, which extend adds, or raises, which the except logs.
FetchReturn(v) ==
  /\ runPc = "fetching"
  /\ runPc' = IF pending = {} THEN "saas" ELSE "connectors"
  /\ current' = NoModule
  /\ vendor' = [x \in DOMAIN vendor \cup {current} |->
                  IF x = current THEN v ELSE vendor[x]]
  /\ identityData' = identityData \o FetchCall(current, v).records
  /\ failedMods' = IF FetchCall(current, v).raised
                     THEN failedMods \cup {current}
                     ELSE failedMods
  /\ UNCHANGED <<pending, saasMapping, saasInvoked, report, fetchStarted, producer, sendIdx,
                 delivered, dropped>>
  /\ UNCHANGED notRun

\* The plugin names load_plugin(plugin_name, plugin_settings) is called for:
\* none when the section is empty (return) or get_running_loop raised first.
InvokedPlugins(section, inLoop) ==
  IF DOMAIN section # {} /\ inLoop THEN DOMAIN section ELSE {}

\* The SaaS block of main: load_saas_connectors(config.get("saas", {})) finds
\* no "saas" key in what it is given and returns []; were it to raise, the
\* except of the block logs it.  Either way identity_data is extended by
\* nothing.
RunSaas ==
  /\ runPc = "saas"
  /\ LET section == SaasSection([wrapped |-> FALSE, mapping |-> saasMapping])
         saas_identity_data == << >>
     IN  /\ identityData' = IF DOMAIN section = {}
                              THEN identityData \o saas_identity_data
                              ELSE identityData
         /\ saasInvoked' = InvokedPlugins(section, FALSE)
  /\ runPc' = "publish"
  /\ UNCHANGED <<pending, saasMapping, failedMods, report, current, vendor,
                 fetchStarted, producer, sendIdx, delivered, dropped>>
  /\ UNCHANGED notRun

\* Publish: the log line with the number of records, before the loop.
RunPublish ==
  /\ runPc = "publish"
  /\ report' = Append(report, [records |-> Len(identityData)])
  /\ sendIdx' = 1
  /\ runPc' = "sending"
  /\ UNCHANGED <<pending, identityData, saasMapping, saasInvoked, failedMods, current, vendor,
                 fetchStarted, producer, delivered, dropped>>
  /\ UNCHANGED notRun

\* One iteration of the publish loop: producer.send(identity_topic, record).
\* send is an async def and main does not await it: the call makes a
\* coroutine object and nothing of the body of send runs, neither start
\* nor send_and_wait.
SendRecord ==
  /\ runPc = "sending"
  /\ sendIdx <= Len(identityData)
  /\ dropped' = Append(dropped, [fn |-> "send", topic |-> IdentityTopic,
                                 value |-> identityData[sendIdx]])
  /\ sendIdx' = sendIdx + 1
  /\ UNCHANGED <<runPc, pending, identityData, saasMapping, saasInvoked, failedMods, report,
                 current, vendor, fetchStarted, producer, delivered>>
  /\ UNCHANGED notRun

\* After the loop: producer.flush(), again an async def that is not
\* awaited, and the last log line; close is not called.
FlushAndEnd ==
  /\ runPc = "sending"
  /\ sendIdx > Len(identityData)
  /\ dropped' = Append(dropped, [fn |-> "flush", topic |-> IdentityTopic,
                                 value |-> [module |-> NoModule, id |-> 0]])
  /\ runPc' = "done"
  /\ UNCHANGED <<pending, identityData, saasMapping, saasInvoked, failedMods, report, current,
                 vendor, fetchStarted, producer, sendIdx, delivered>>
  /\ UNCHANGED notRun

RunNext ==
  \/ \E configOk \in BOOLEAN, producerOk \in BOOLEAN : RunStart(configOk, producerOk)
  \/ \E m \in ConnectorModules \cup {DropIn}, imports \in BOOLEAN, v \in VendorStates :
       LoadModule(m, imports, v)
  \/ \E v \in VendorStates : FetchReturn(v)
  \/ RunSaas
  \/ RunPublish
  \/ SendRecord
  \/ FlushAndEnd

(***************************************************************************)
(* Region threads of one AWSResourceConnector instance:                    *)
(* _async_fetch_resources runs _fetch_resources_for_region once per region *)
(* in a ThreadPoolExecutor; every thread tests and extends self.cache.     *)
(* (GCPResourceConnector does the same per project.)                       *)
(***************************************************************************)
Regions == 1..NumRegions
Arns == {"arn1", "arn2"}

RECURSIVE SeqsUpTo(_, _)
SeqsUpTo(S, n) ==
  IF n = 0 THEN {<< >>}
  ELSE LET shorter == SeqsUpTo(S, n - 1)
       IN shorter \cup { Append(q, x) : q \in shorter, x \in S }

ArnLists == SeqsUpTo(Arns, MaxArns)

\* resources = []; the loop over the mappings starts at the first one.
NewRegionTask == [pc |-> "check", pos |-> 1, resources |-> << >>]

RECURSIVE Concat(_, _)
Concat(ts, i) ==
  IF i > NumRegions THEN << >> ELSE ts[i].resources \o Concat(ts, i + 1)

DedupInit ==
  /\ regionData \in [Regions -> ArnLists]
  /\ regionTasks = [r \in Regions |-> NewRegionTask]
  /\ sharedCache = {}
  /\ allResources = << >>
  /\ rfPc = "gather"

DedupIdle ==
  /\ regionData = [r \in Regions |-> << >>]
  /\ regionTasks = [r \in Regions |-> NewRegionTask]
  /\ sharedCache = {}
  /\ allResources = << >>
  /\ rfPc = "gather"

\* if resource_arn in self.cache: continue -- the test, in the thread of
\* region r; on an ARN not in the set the thread goes on to the insert.
RegionCheck(r) ==
  LET t == regionTasks[r] IN
  /\ t.pc = "check"
  /\ t.pos <= Len(regionData[r])
  /\ regionTasks' = [regionTasks EXCEPT ![r] =
       IF regionData[r][t.pos] \in sharedCache
         THEN [t EXCEPT !.pos = t.pos + 1]
         ELSE [t EXCEPT !.pc = "insert"]]
  /\ UNCHANGED <<regionData, sharedCache, allResources, rfPc>>
  /\ UNCHANGED notDedup

\* self.cache.add(resource_arn); ...; resources.append(resource_record)
RegionInsert(r) ==
  LET t == regionTasks[r]
      arn == regionData[r][t.pos]
  IN
  /\ t.pc = "insert"
  /\ sharedCache' = sharedCache \cup {arn}
  /\ regionTasks' = [regionTasks EXCEPT ![r] =
       [pc |-> "check", pos |-> t.pos + 1,
        resources |-> Append(t.resources, [arn |-> arn, region |-> r])]]
  /\ UNCHANGED <<regionData, allResources, rfPc>>
  /\ UNCHANGED notDedup

\* return resources
RegionReturn(r) ==
  LET t == regionTasks[r] IN
  /\ t.pc = "check"
  /\ t.pos > Len(regionData[r])
  /\ regionTasks' = [regionTasks EXCEPT ![r].pc = "returned"]
  /\ UNCHANGED <<regionData, sharedCache, allResources, rfPc>>
  /\ UNCHANGED notDedup

\* results = await asyncio.gather(*tasks); all_resources.extend(result) in
\* the order of the regions.
GatherResources ==
  /\ rfPc = "gather"
  /\ \A r \in Regions : regionTasks[r].pc = "returned"
  /\ allResources' = Concat(regionTasks, 1)
  /\ rfPc' = "returned"
  /\ UNCHANGED <<regionData, regionTasks, sharedCache>>
  /\ UNCHANGED notDedup

DedupNext ==
  \/ \E r \in Regions : RegionCheck(r)
  \/ \E r \in Regions : RegionInsert(r)
  \/ \E r \in Regions : RegionReturn(r)
  \/ GatherResources

(***************************************************************************)
(* Repeated calls of fetch_identities / fetch_resources on one connector   *)
(* instance, every page request succeeding and the vendor's data staying   *)
(* the same.  The dedup set is self.cache, made once in initialize /       *)
(* __init__ (m365, servicenow, github, aws resources), or dedup_ids, made  *)
(* anew by every call (azure, ad, aws).                                    *)
(***************************************************************************)
InstanceCached == SaasStyle \cup {"awsres"}

TwiceInit ==
  /\ twConn \in Connectors
  /\ twLastRun \in LastRunValues(twConn)
  /\ twData \in { Stamp(p, 0) : p \in PageSeqs(twConn) }
  /\ twCache = {}
  /\ twResults = << >>

TwiceIdle ==
  /\ twConn = "azure"
  /\ twLastRun = "absent"
  /\ twData = << >>
  /\ twCache = {}
  /\ twResults = << >>

\* One whole call: the dedup loop over the fetched records, starting from
\* self.cache as the instance holds it or from an empty dedup_ids.
FetchWhole ==
  /\ Len(twResults) < MaxRuns
  /\ LET seen == IF twConn \in InstanceCached THEN twCache ELSE {}
         d == DedupLoop(twConn, twLastRun, twData, << >>, seen)
     IN /\ twResults' = Append(twResults, d.out)
        /\ twCache' = IF twConn \in InstanceCached THEN d.seen ELSE twCache
  /\ UNCHANGED <<twConn, twLastRun, twData>>
  /\ UNCHANGED notTwice

TwiceNext == FetchWhole

(***************************************************************************)
(* Two connector instances (or the scope configurations of two runs) in    *)
(* one process asking for tokens one after the other.  azure, salesforce   *)
(* and servicenow keep _token_cache at module level; M365Connector makes   *)
(* self._token_cache in initialize.  The key is tenant_id / instance_url;  *)
(* the exchange presents the calling configuration's client credentials.   *)
(***************************************************************************)
OAuthConnectors == {"azure", "m365", "salesforce", "servicenow"}
OwnTokenCache == {"m365"}
Instances == {1, 2}
Credentials == {"cred1", "cred2"}
InstConfigs == [key : CacheKeys, cred : Credentials]

InstInit ==
  /\ ocConn \in OAuthConnectors
  /\ ocCfg \in [Instances -> InstConfigs]
  /\ ocClock = 0
  /\ ocModule = << >>
  /\ ocOwn = [i \in Instances |-> << >>]
  /\ ocGrants = << >>
  /\ ocLog = << >>

InstIdle ==
  /\ ocConn = "azure"
  /\ ocCfg = [i \in Instances |-> [key |-> "k1", cred |-> "cred1"]]
  /\ ocClock = 0
  /\ ocModule = << >>
  /\ ocOwn = [i \in Instances |-> << >>]
  /\ ocGrants = << >>
  /\ ocLog = << >>

\* The dictionary get_auth_token of instance i reads and writes.
TokenCacheOf(i) == IF ocConn \in OwnTokenCache THEN ocOwn[i] ELSE ocModule

InstTick ==
  /\ ocClock + TickLen <= MaxClock
  /\ ocClock' = ocClock + TickLen
  /\ UNCHANGED <<ocConn, ocCfg, ocModule, ocOwn, ocGrants, ocLog>>
  /\ UNCHANGED notInst

\* get_auth_token of instance i, served from the cache.
InstTokenCached(i) ==
  /\ Len(ocLog) < MaxCalls
  /\ CacheValid(TokenCacheOf(i), ocCfg[i].key, ocClock)
  /\ LET e == TokenCacheOf(i)[ocCfg[i].key]
     IN ocLog' = Append(ocLog, [inst |-> i, status |-> "cached",
                                token |-> e.access_token, now |-> ocClock,
                                expires_at |-> e.expires_at])
  /\ UNCHANGED <<ocConn, ocCfg, ocClock, ocModule, ocOwn, ocGrants>>
  /\ UNCHANGED notInst

\* get_auth_token of instance i with no valid entry: the credentials of its
\* configuration are exchanged and the answer stored under the key.
InstTokenExchange(i, result) ==
  /\ Len(ocLog) < MaxCalls
  /\ ~CacheValid(TokenCacheOf(i), ocCfg[i].key, ocClock)
  /\ LET key == ocCfg[i].key
         ok == result.kind = "token"
         tok == Len(ocGrants) + 1
         cache2 == CacheAfterExchange(TokenCacheOf(i), key, ocClock, result, tok)
     IN /\ ocGrants' = IF ok THEN Append(ocGrants, ocCfg[i].cred) ELSE ocGrants
        /\ ocModule' = IF ocConn \in OwnTokenCache THEN ocModule ELSE cache2
        /\ ocOwn' = IF ocConn \in OwnTokenCache
                      THEN [ocOwn EXCEPT ![i] = cache2] ELSE ocOwn
        /\ ocLog' = Append(ocLog,
                      [inst |-> i, status |-> IF ok THEN "fresh" ELSE "raised",
                       token |-> IF ok THEN tok ELSE 0, now |-> ocClock,
                       expires_at |-> IF ok THEN ExpiresAt(ocClock, ExpiresIn(result))
                                           ELSE 0])
  /\ UNCHANGED <<ocConn, ocCfg, ocClock>>
  /\ UNCHANGED notInst

InstNext ==
  \/ InstTick
  \/ \E i \in Instances : InstTokenCached(i)
  \/ \E i \in Instances, result \in ExchangeResults : InstTokenExchange(i, result)

(***************************************************************************)
(* Request building of GCPResourceConnector._fetch_resources_for_project   *)
(* and AzureResourceConnector._build_query_request: one request per        *)
(* project / subscription, its read_time taken from last_run when that is  *)
(* truthy and from the current time otherwise.                             *)
(***************************************************************************)
ResourceRequesters == {"gcpres", "azres"}
Absent == "absent"
IsoTimes == {"1970-01-01T00:00:10", "1970-01-01T00:00:40"}

\* datetime.fromisoformat(iso_str) followed by Timestamp.FromDatetime
FromIso(s) == IF s = "1970-01-01T00:00:10" THEN 10 ELSE 40

\* a request on which read_time was never assigned
NoReadTime == -1

ResScopeLists == { <<"p1">>, <<"p1", "p2">>, <<"p2", "p1">> }

ResReqInit ==
  /\ rqConn \in ResourceRequesters
  /\ rqLastRun \in {Absent} \cup IsoTimes
  /\ rqScopes \in ResScopeLists
  /\ rqClock = 0
  /\ rqBuilt = << >>

ResReqIdle ==
  /\ rqConn = "gcpres"
  /\ rqLastRun = Absent
  /\ rqScopes = <<"p1">>
  /\ rqClock = 0
  /\ rqBuilt = << >>

ResReqTick ==
  /\ rqClock + TickLen <= MaxClock
  /\ rqClock' = rqClock + TickLen
  /\ UNCHANGED <<rqConn, rqLastRun, rqScopes, rqBuilt>>
  /\ UNCHANGED notResReq

\* if self.last_run: request.read_time = <last_run>  else: <current time>
ReadTime(lr, now) == IF lr # Absent THEN FromIso(lr) ELSE now

\* The request for the next project / subscription is built.
BuildRequest ==
  /\ Len(rqBuilt) < Len(rqScopes)
  /\ rqBuilt' = Append(rqBuilt,
                  [parent |-> rqScopes[Len(rqBuilt) + 1],
                   read_time |-> ReadTime(rqLastRun, rqClock)])
  /\ UNCHANGED <<rqConn, rqLastRun, rqScopes, rqClock>>
  /\ UNCHANGED notResReq

ResReqNext == ResReqTick \/ BuildRequest

(***************************************************************************)
(* fetch_paginated_data of M365Connector, SalesforceConnector and          *)
(* ServiceNowConnector with its token and its clock: get_auth_token while  *)
(* the headers are built, one ClientSession with these headers, then the   *)
(* while url loop; a throttling answer sleeps in handle_rate_limit and the *)
(* loop continues with the same url and params.                            *)
(***************************************************************************)
OAuthPaged == {"m365", "salesforce", "servicenow"}

\* self.sysparm_limit = self.config.get("sysparm_limit", 100)
PageLimits == 1..MaxPageLen

\* self.rate_limit_retry = self.config.get("rate_limit_retry", {"max_attempts": 5, ...})
DefaultRateLimitAttempts == 5
RateLimitConfigs == [max_attempts : {1, DefaultRateLimitAttempts}]

\* _token_cache when the call starts: empty, or a token of an earlier call
HeldCaches ==
  { << >> } \cup
  { [k \in {"k1"} |-> [access_token |-> 1, expires_at |-> e]] : e \in {0, TickLen} }

NoHeaders == [Authorization |-> 0]

PaginateInit ==
  /\ fpConn \in OAuthPaged
  /\ fpLimit \in (IF fpConn = "servicenow" THEN PageLimits ELSE {MaxPageLen})
  /\ fpRetryCfg \in RateLimitConfigs
  /\ fpClock = 0
  /\ fpCache \in HeldCaches
  /\ fpHeaders = NoHeaders
  /\ fpTokens = << >>
  /\ fpIssued = 1
  /\ fpPc = "start"
  /\ fpUrl = BaseUrl
  /\ fpOffset = 0
  /\ fpReqs = << >>
  /\ fpAns = << >>
  /\ fpPages = << >>
  /\ fpResults = << >>

PaginateIdle ==
  /\ fpConn = "m365"
  /\ fpLimit = 1
  /\ fpRetryCfg = [max_attempts |-> DefaultRateLimitAttempts]
  /\ fpClock = 0
  /\ fpCache = << >>
  /\ fpHeaders = NoHeaders
  /\ fpTokens = << >>
  /\ fpIssued = 1
  /\ fpPc = "start"
  /\ fpUrl = BaseUrl
  /\ fpOffset = 0
  /\ fpReqs = << >>
  /\ fpAns = << >>
  /\ fpPages = << >>
  /\ fpResults = << >>

\* headers = {"Authorization": f"Bearer {self.get_auth_token()}", ...}
BearerHeaders(token) == [Authorization |-> token]

\* get_auth_token served from the cache, then the session is opened.
PaginateStartCached ==
  /\ fpPc = "start"
  /\ CacheValid(fpCache, "k1", fpClock)
  /\ fpTokens' = Append(fpTokens, fpCache["k1"].access_token)
  /\ fpHeaders' = BearerHeaders(fpCache["k1"].access_token)
  /\ fpPc' = "loop"
  /\ UNCHANGED <<fpConn, fpLimit, fpRetryCfg, fpClock, fpCache, fpIssued, fpUrl,
                 fpOffset, fpReqs, fpAns, fpPages, fpResults>>
  /\ UNCHANGED notPaginate

\* get_auth_token exchanging the credentials; a failed exchange raises out of
\* fetch_paginated_data before any request.
PaginateStartExchange(result) ==
  /\ fpPc = "start"
  /\ ~CacheValid(fpCache, "k1", fpClock)
  /\ LET ok == result.kind = "token"
         tok == fpIssued + 1
     IN /\ fpCache' = CacheAfterExchange(fpCache, "k1", fpClock, result, tok)
        /\ fpIssued' = IF ok THEN tok ELSE fpIssued
        /\ fpTokens' = IF ok THEN Append(fpTokens, tok) ELSE fpTokens
        /\ fpHeaders' = IF ok THEN BearerHeaders(tok) ELSE fpHeaders
        /\ fpPc' = IF ok THEN "loop" ELSE "raised"
  /\ UNCHANGED <<fpConn, fpLimit, fpRetryCfg, fpClock, fpUrl, fpOffset, fpReqs,
                 fpAns, fpPages, fpResults>>
  /\ UNCHANGED notPaginate

\* The vendor holds finitely many pages and honours sysparm_limit.
PageAnswerable(resp) ==
  resp.kind = "ok" =>
    IF fpConn = "servicenow"
      THEN /\ ~resp.next
           /\ Len(resp.recs) <= fpLimit
           /\ (Len(fpPages) + 1 >= MaxPages => Len(resp.recs) < fpLimit)
      ELSE Len(fpPages) + 1 >= MaxPages => ~resp.next

\* session.get(url, params=params): the request goes out with the headers the
\* session was opened with, whatever the token cache holds by now
RequestAuthRefreshed(headers, cache, now) ==
  IF CacheValid(cache, "k1", now) THEN headers.Authorization ELSE 0
RequestAuth(headers, cache, now) == headers.Authorization

\* if response.status in (429, 403): await self.handle_rate_limit(response); continue
ContinueAfterWaitCapped(cycles, cfg) == cycles < cfg.max_attempts
ContinueAfterWait(cycles, cfg) == TRUE

\* offset = params.get("sysparm_offset", 0) + self.sysparm_limit
AdvanceOffsetByBatch(offset, limit, len) == offset + len + 1
AdvanceOffset(offset, limit, len) == offset + limit

\* The answers a page request may get; what the vendor's records hold beyond
\* their number plays no part in fetch_paginated_data.
PageAnswers ==
  { r \in Responses(fpConn) : \A i \in DOMAIN r.recs : r.recs[i].id = "A" }

ThrottleCount(ans) == Cardinality({ i \in DOMAIN ans : ans[i].kind = "throttle" })

\* Throttled answers since the last answered page.
RECURSIVE TrailingThrottles(_)
TrailingThrottles(ans) ==
  IF ans = << >> \/ ans[Len(ans)].kind # "throttle" THEN 0
  ELSE 1 + TrailingThrottles(SubSeq(ans, 1, Len(ans) - 1))

\* One turn of the while url loop.
PaginateRequest(resp) ==
  /\ fpPc = "loop"
  /\ PageAnswerable(resp)
  /\ (resp.kind = "throttle" => ThrottleCount(fpAns) < MaxThrottles)
  /\ fpReqs' = Append(fpReqs, [url |-> fpUrl, offset |-> fpOffset,
                               auth |-> RequestAuth(fpHeaders, fpCache, fpClock),
                               at |-> fpClock])
  /\ fpAns' = Append(fpAns,
       [kind |-> resp.kind,
        slept |-> IF resp.kind = "throttle" THEN RateLimitWait(fpConn, resp.hint) ELSE 0])
  /\ CASE resp.kind = "ok" ->
            LET last == fpConn = "servicenow" /\ IsLastBatch(Len(resp.recs), fpLimit)
                nxt == IF fpConn = "servicenow" THEN fpUrl ELSE NextCursor(fpUrl, resp)
                page == Stamp(resp.recs, Len(fpResults))
            IN /\ fpResults' = fpResults \o page
               /\ fpPages' = Append(fpPages, [offset |-> fpOffset, recs |-> page])
               /\ fpUrl' = nxt
               /\ fpOffset' = IF fpConn = "servicenow" /\ ~last
                                THEN AdvanceOffset(fpOffset, fpLimit, Len(resp.recs))
                                ELSE fpOffset
               /\ fpPc' = IF last \/ nxt = NoCursor THEN "returned" ELSE "loop"
               /\ UNCHANGED fpClock
       [] resp.kind = "throttle" ->
            /\ fpClock' = fpClock + RateLimitWait(fpConn, resp.hint)
            /\ fpPc' = IF ContinueAfterWait(TrailingThrottles(fpAns) + 1, fpRetryCfg)
                         THEN "loop" ELSE "raised"
            /\ UNCHANGED <<fpResults, fpPages, fpUrl, fpOffset>>
       [] resp.kind = "error" ->
            /\ fpPc' = "raised"
            /\ UNCHANGED <<fpResults, fpPages, fpUrl, fpOffset, fpClock>>
  /\ UNCHANGED <<fpConn, fpLimit, fpRetryCfg, fpCache, fpHeaders, fpTokens, fpIssued>>
  /\ UNCHANGED notPaginate

PaginateNext ==
  \/ PaginateStartCached
  \/ \E result \in ExchangeResults : PaginateStartExchange(result)
  \/ \E resp \in PageAnswers : PaginateRequest(resp)

(***************************************************************************)
(* auth-service/src/auth.py.  SECRET_KEY, ALGORITHM and                    *)
(* ACCESS_TOKEN_EXPIRE_MINUTES are module-level names bound by os.getenv   *)
(* when the module is imported; generate_access_token and verify_token     *)
(* read these names.  The environment may be assigned to before and after  *)
(* the import.                                                             *)
(***************************************************************************)
Unset == "unset"
UnsetMinutes == -1
DefaultSecret == "your_default_secret_key"
DefaultAlgorithm == "HS256"
DefaultExpireMinutes == 30
SecondsPerMinute == 60

Secrets == {"test_secret_key", "other_key"}
Algorithms == {"HS256", "HS384"}
ExpireMinutes == {0, 1}

NotImported == [loaded |-> FALSE, secret |-> Unset, alg |-> Unset,
                minutes |-> UnsetMinutes]

\* os.getenv(name, default) of the three settings
Getenv(env) ==
  [secret |-> IF env.secret = Unset THEN DefaultSecret ELSE env.secret,
   alg |-> IF env.alg = Unset THEN DefaultAlgorithm ELSE env.alg,
   minutes |-> IF env.minutes = UnsetMinutes THEN DefaultExpireMinutes
               ELSE env.minutes]

AuthInit ==
  /\ auEnv = [secret |-> Unset, alg |-> Unset, minutes |-> UnsetMinutes]
  /\ auModule = NotImported
  /\ auClock = 0
  /\ auSets = 0
  /\ auSleeps = 0
  /\ auTokens = << >>
  /\ auChecks = << >>

AuthIdle == AuthInit

\* os.environ[name] = value
SetEnvSecret(v) ==
  /\ auSets < MaxRuns
  /\ auSets' = auSets + 1
  /\ auEnv' = [auEnv EXCEPT !.secret = v]
  /\ UNCHANGED <<auModule, auClock, auSleeps, auTokens, auChecks>>
  /\ UNCHANGED notAuth

SetEnvAlgorithm(v) ==
  /\ auSets < MaxRuns
  /\ auSets' = auSets + 1
  /\ auEnv' = [auEnv EXCEPT !.alg = v]
  /\ UNCHANGED <<auModule, auClock, auSleeps, auTokens, auChecks>>
  /\ UNCHANGED notAuth

SetEnvMinutes(v) ==
  /\ auSets < MaxRuns
  /\ auSets' = auSets + 1
  /\ auEnv' = [auEnv EXCEPT !.minutes = v]
  /\ UNCHANGED <<auModule, auClock, auSleeps, auTokens, auChecks>>
  /\ UNCHANGED notAuth

\* import auth: the module body runs once
ImportAuth ==
  /\ ~auModule.loaded
  /\ auModule' = [loaded |-> TRUE, secret |-> Getenv(auEnv).secret,
                  alg |-> Getenv(auEnv).alg, minutes |-> Getenv(auEnv).minutes]
  /\ UNCHANGED <<auEnv, auClock, auSets, auSleeps, auTokens, auChecks>>
  /\ UNCHANGED notAuth

\* time.sleep(d)
AuthSleep(d) ==
  /\ auSleeps < MaxCalls
  /\ auClock + d <= MaxClock
  /\ auSleeps' = auSleeps + 1
  /\ auClock' = auClock + d
  /\ UNCHANGED <<auEnv, auModule, auSets, auTokens, auChecks>>
  /\ UNCHANGED notAuth

\* The settings a call of generate_access_token / verify_token works with.
SettingsInUse(module, env) == module

\* expire = utcnow() + timedelta(minutes=ACCESS_TOKEN_EXPIRE_MINUTES)
\* token = jwt.encode(to_encode, SECRET_KEY, algorithm=ALGORITHM)
GenerateAccessToken ==
  /\ auModule.loaded
  /\ Len(auTokens) + Len(auChecks) < MaxCalls
  /\ LET s == SettingsInUse(auModule, auEnv)
     IN auTokens' = Append(auTokens,
          [key |-> s.secret, alg |-> s.alg,
           exp |-> auClock + s.minutes * SecondsPerMinute,
           at |-> auClock, env |-> Getenv(auEnv)])
  /\ UNCHANGED <<auEnv, auModule, auClock, auSets, auSleeps, auChecks>>
  /\ UNCHANGED notAuth

\* jwt.decode(token, key, algorithms=[alg]): the algorithm and the signature
\* are checked first, then exp against the clock; at the very second of exp
\* the outcome depends on the PyJWT release.
DecodeOutcomes(tok, key, alg, now) ==
  IF tok.alg # alg \/ tok.key # key THEN {"invalid"}
  ELSE IF tok.exp < now THEN {"expired"}
  ELSE IF tok.exp = now THEN {"expired", "ok"}
  ELSE {"ok"}

\* payload = jwt.decode(token, SECRET_KEY, algorithms=[ALGORITHM])
VerifyToken(n, outcome) ==
  /\ auModule.loaded
  /\ Len(auTokens) + Len(auChecks) < MaxCalls
  /\ n \in DOMAIN auTokens
  /\ LET s == SettingsInUse(auModule, auEnv)
     IN outcome \in DecodeOutcomes(auTokens[n], s.secret, s.alg, auClock)
  /\ auChecks' = Append(auChecks,
       [token |-> n, outcome |-> outcome, at |-> auClock, env |-> Getenv(auEnv)])
  /\ UNCHANGED <<auEnv, auModule, auClock, auSets, auSleeps, auTokens>>
  /\ UNCHANGED notAuth

AuthNext ==
  \/ \E v \in Secrets : SetEnvSecret(v)
  \/ \E v \in Algorithms : SetEnvAlgorithm(v)
  \/ \E v \in ExpireMinutes : SetEnvMinutes(v)
  \/ ImportAuth
  \/ \E d \in {1, SecondsPerMinute} : AuthSleep(d)
  \/ GenerateAccessToken
  \/ \E n \in 1..MaxCalls, outcome \in {"ok", "expired", "invalid"} :
       VerifyToken(n, outcome)

(***************************************************************************)
(* kafka_producer.KafkaProducerWrapper called from coroutines of one event *)
(* loop.  A coroutine runs without interruption from one await to the      *)
(* next; while it is suspended in an await of the AIOKafkaProducer the     *)
(* other coroutines run.                                                   *)
(***************************************************************************)
Coroutines == 1..NumCallers
NotInCall == [method |-> "none", at |-> "none"]

ProducerInit ==
  /\ kpStarted = FALSE
  /\ kpUnder = "stopped"
  /\ kpCalls = [t \in Coroutines |-> NotInCall]
  /\ kpBegun = 0
  /\ kpLog = << >>

ProducerIdle == ProducerInit

\* One call on the AIOKafkaProducer, with the state it finds it in.
Invoke(op) == Append(kpLog, [op |-> op, under |-> kpUnder])

\* start(), and the head of send() on a wrapper whose flag is not set:
\* if not self.started: await self.producer.start()
BeginStart(t, method) ==
  /\ kpCalls[t] = NotInCall /\ kpBegun < MaxCalls
  /\ method \in {"start", "send"}
  /\ ~kpStarted
  /\ kpBegun' = kpBegun + 1
  /\ kpLog' = Invoke("start")
  /\ kpUnder' = "starting"
  /\ kpCalls' = [kpCalls EXCEPT ![t] = [method |-> method, at |-> "producer.start"]]
  /\ UNCHANGED kpStarted
  /\ UNCHANGED notProducer

\* start() with the flag set: nothing to do
BeginStartNoop(t) ==
  /\ kpCalls[t] = NotInCall /\ kpBegun < MaxCalls
  /\ kpStarted
  /\ kpBegun' = kpBegun + 1
  /\ UNCHANGED <<kpStarted, kpUnder, kpCalls, kpLog>>
  /\ UNCHANGED notProducer

\* send() with the flag set: await self.producer.send_and_wait(...)
BeginSend(t) ==
  /\ kpCalls[t] = NotInCall /\ kpBegun < MaxCalls
  /\ kpStarted
  /\ kpBegun' = kpBegun + 1
  /\ kpLog' = Invoke("send_and_wait")
  /\ kpCalls' = [kpCalls EXCEPT ![t] = [method |-> "send", at |-> "send_and_wait"]]
  /\ UNCHANGED <<kpStarted, kpUnder>>
  /\ UNCHANGED notProducer

\* flush(): if self.started: await self.producer.flush()
BeginFlush(t) ==
  /\ kpCalls[t] = NotInCall /\ kpBegun < MaxCalls
  /\ kpBegun' = kpBegun + 1
  /\ IF kpStarted
       THEN /\ kpLog' = Invoke("flush")
            /\ kpCalls' = [kpCalls EXCEPT ![t] = [method |-> "flush", at |-> "producer.flush"]]
       ELSE UNCHANGED <<kpLog, kpCalls>>
  /\ UNCHANGED <<kpStarted, kpUnder>>
  /\ UNCHANGED notProducer

\* close(): if self.started: await self.producer.stop()
BeginClose(t) ==
  /\ kpCalls[t] = NotInCall /\ kpBegun < MaxCalls
  /\ kpBegun' = kpBegun + 1
  /\ IF kpStarted
       THEN /\ kpLog' = Invoke("stop")
            /\ kpUnder' = "stopping"
            /\ kpCalls' = [kpCalls EXCEPT ![t] = [method |-> "close", at |-> "producer.stop"]]
       ELSE UNCHANGED <<kpLog, kpUnder, kpCalls>>
  /\ UNCHANGED kpStarted
  /\ UNCHANGED notProducer

\* await self.producer.start() returns: self.started = True; in send() the
\* coroutine runs on to send_and_wait without another check.
StartReturns(t) ==
  /\ kpCalls[t].at = "producer.start"
  /\ kpStarted' = TRUE
  /\ kpUnder' = "started"
  /\ IF kpCalls[t].method = "send"
       THEN /\ kpLog' = Append(kpLog, [op |-> "send_and_wait", under |-> "started"])
            /\ kpCalls' = [kpCalls EXCEPT ![t] = [method |-> "send", at |-> "send_and_wait"]]
       ELSE /\ kpCalls' = [kpCalls EXCEPT ![t] = NotInCall]
            /\ UNCHANGED kpLog
  /\ UNCHANGED kpBegun
  /\ UNCHANGED notProducer

\* await send_and_wait / flush returns (or raises into the except of send)
AwaitReturns(t) ==
  /\ kpCalls[t].at \in {"send_and_wait", "producer.flush"}
  /\ kpCalls' = [kpCalls EXCEPT ![t] = NotInCall]
  /\ UNCHANGED <<kpStarted, kpUnder, kpBegun, kpLog>>
  /\ UNCHANGED notProducer

\* await self.producer.stop() returns: self.started = False
StopReturns(t) ==
  /\ kpCalls[t].at = "producer.stop"
  /\ kpStarted' = FALSE
  /\ kpUnder' = "stopped"
  /\ kpCalls' = [kpCalls EXCEPT ![t] = NotInCall]
  /\ UNCHANGED <<kpBegun, kpLog>>
  /\ UNCHANGED notProducer

ProducerNext ==
  \/ \E t \in Coroutines, method \in {"start", "send"} : BeginStart(t, method)
  \/ \E t \in Coroutines : BeginStartNoop(t)
  \/ \E t \in Coroutines : BeginSend(t)
  \/ \E t \in Coroutines : BeginFlush(t)
  \/ \E t \in Coroutines : BeginClose(t)
  \/ \E t \in Coroutines : StartReturns(t)
  \/ \E t \in Coroutines : AwaitReturns(t)
  \/ \E t \in Coroutines : StopReturns(t)

(***************************************************************************)
(* Specifications.                                                         *)
(***************************************************************************)
TokenNext ==
  \/ Tick
  \/ \E key \in CacheKeys : GetTokenCached(key)
  \/ \E key \in CacheKeys : GetTokenMiss(key)
  \/ \E result \in ExchangeResults : GetTokenExchange(result)

Init == TokenInit /\ PageInit /\ ScopeIdle /\ CallersIdle /\ RetryIdle /\ LoaderIdle /\ RunIdle /\ DedupIdle /\ TwiceIdle /\ InstIdle /\ ResReqIdle /\ PaginateIdle /\ AuthIdle /\ ProducerIdle

Spec == Init /\ [][PageNext]_vars

InitToken == TokenInit /\ PageIdle /\ ScopeIdle /\ CallersIdle /\ RetryIdle /\ LoaderIdle /\ RunIdle /\ DedupIdle /\ TwiceIdle /\ InstIdle /\ ResReqIdle /\ PaginateIdle /\ AuthIdle /\ ProducerIdle

SpecToken == InitToken /\ [][TokenNext]_vars

InitScopes == TokenInit /\ PageIdle /\ ScopeInit /\ CallersIdle /\ RetryIdle /\ LoaderIdle /\ RunIdle /\ DedupIdle /\ TwiceIdle /\ InstIdle /\ ResReqIdle /\ PaginateIdle /\ AuthIdle /\ ProducerIdle

SpecScopes == InitScopes /\ [][ScopeNext]_vars

InitCallers ==
  /\ clock = 0 /\ issued = 0 /\ callsMade = 0 /\ inflight = NoCall
  /\ lifetimes = << >>
  /\ hist = [k \in CacheKeys |-> [prev |-> NoHist, last |-> NoHist]]
  /\ tokenCache \in StartCaches
  /\ PageIdle /\ ScopeIdle /\ CallersInit /\ RetryIdle /\ LoaderIdle /\ RunIdle /\ DedupIdle /\ TwiceIdle /\ InstIdle /\ ResReqIdle /\ PaginateIdle /\ AuthIdle /\ ProducerIdle

SpecCallers == InitCallers /\ [][CallersNext]_vars

InitRetry == TokenInit /\ PageIdle /\ ScopeIdle /\ CallersIdle /\ RetryInit /\ LoaderIdle /\ RunIdle /\ DedupIdle /\ TwiceIdle /\ InstIdle /\ ResReqIdle /\ PaginateIdle /\ AuthIdle /\ ProducerIdle

SpecRetry == InitRetry /\ [][RetryNext]_vars

InitLoader == TokenInit /\ PageIdle /\ ScopeIdle /\ CallersIdle /\ RetryIdle /\ LoaderInit /\ RunIdle /\ DedupIdle /\ TwiceIdle /\ InstIdle /\ ResReqIdle /\ PaginateIdle /\ AuthIdle /\ ProducerIdle

SpecLoader == InitLoader /\ [][LoaderNext]_vars

InitRun == TokenInit /\ PageIdle /\ ScopeIdle /\ CallersIdle /\ RetryIdle /\ LoaderIdle /\ RunInit /\ DedupIdle /\ TwiceIdle /\ InstIdle /\ ResReqIdle /\ PaginateIdle /\ AuthIdle /\ ProducerIdle

SpecRun == InitRun /\ [][RunNext]_vars

InitDedup == TokenInit /\ PageIdle /\ ScopeIdle /\ CallersIdle /\ RetryIdle /\ LoaderIdle /\ RunIdle /\ DedupInit /\ TwiceIdle /\ InstIdle /\ ResReqIdle /\ PaginateIdle /\ AuthIdle /\ ProducerIdle

SpecDedup == InitDedup /\ [][DedupNext]_vars

InitTwice == TokenInit /\ PageIdle /\ ScopeIdle /\ CallersIdle /\ RetryIdle /\ LoaderIdle /\ RunIdle /\ DedupIdle /\ TwiceInit /\ InstIdle /\ ResReqIdle /\ PaginateIdle /\ AuthIdle /\ ProducerIdle

SpecTwice == InitTwice /\ [][TwiceNext]_vars

SpecHang == InitScopes /\ [][HangNext]_vars /\ HangFairness

InitInst == TokenInit /\ PageIdle /\ ScopeIdle /\ CallersIdle /\ RetryIdle /\ LoaderIdle /\ RunIdle /\ DedupIdle /\ TwiceIdle /\ InstInit /\ ResReqIdle /\ PaginateIdle /\ AuthIdle /\ ProducerIdle

SpecInstances == InitInst /\ [][InstNext]_vars

InitResReq == TokenInit /\ PageIdle /\ ScopeIdle /\ CallersIdle /\ RetryIdle /\ LoaderIdle /\ RunIdle /\ DedupIdle /\ TwiceIdle /\ InstIdle /\ ResReqInit /\ PaginateIdle /\ AuthIdle /\ ProducerIdle

SpecResReq == InitResReq /\ [][ResReqNext]_vars

InitPaginate == TokenInit /\ PageIdle /\ ScopeIdle /\ CallersIdle /\ RetryIdle /\ LoaderIdle /\ RunIdle /\ DedupIdle /\ TwiceIdle /\ InstIdle /\ ResReqIdle /\ PaginateInit /\ AuthIdle /\ ProducerIdle

SpecPaginate == InitPaginate /\ [][PaginateNext]_vars

InitAuth == TokenInit /\ PageIdle /\ ScopeIdle /\ CallersIdle /\ RetryIdle /\ LoaderIdle /\ RunIdle /\ DedupIdle /\ TwiceIdle /\ InstIdle /\ ResReqIdle /\ PaginateIdle /\ AuthInit /\ ProducerIdle

SpecAuth == InitAuth /\ [][AuthNext]_vars

InitProducer == TokenInit /\ PageIdle /\ ScopeIdle /\ CallersIdle /\ RetryIdle /\ LoaderIdle /\ RunIdle /\ DedupIdle /\ TwiceIdle /\ InstIdle /\ ResReqIdle /\ PaginateIdle /\ AuthIdle /\ ProducerInit

SpecProducer == InitProducer /\ [][ProducerNext]_vars

(***************************************************************************)
(* Claims about the token cache, checked under SpecToken.                  *)
(***************************************************************************)
WindowOpen(c) == c.hadEntry /\ c.now < c.entryExpires

\* C8 (token reuse): a call made while now < expiresAt of the cached entry
\* performs no exchange and returns the cached token, which is the token the
\* call before it returned for that key, so that a fresh call and the call after
\* it inside the window cause one exchange together; a call made with no entry,
\* or at or after expiresAt, performs exactly one exchange and, when the exchange
\* answers with a token, leaves that new token as the cached entry.
C8_TokenReuse ==
  \A k \in CacheKeys :
    LET L == hist[k].last
        P == hist[k].prev
    IN /\ (L.status # "none" /\ WindowOpen(L)) =>
            /\ L.status = "cached"
            /\ L.exchanges = 0
            /\ L.token = L.entryToken
            /\ (P.status \in {"fresh", "cached"} =>
                  /\ L.token = P.token
                  /\ P.exchanges + L.exchanges = (IF P.status = "fresh" THEN 1 ELSE 0))
       /\ (L.status # "none" /\ ~WindowOpen(L)) =>
            /\ L.status \in {"fresh", "raised"}
            /\ L.exchanges = 1
            /\ (L.status = "fresh" =>
                  /\ L.afterPresent
                  /\ L.afterToken = L.token
                  /\ (L.hadEntry => L.token # L.entryToken))

\* C8 witness: a fresh call followed inside its window by a cached call, for a
\* key whose entry had expired once before.
C8_Witness ==
  \E k \in CacheKeys :
    /\ hist[k].prev.status = "fresh" /\ hist[k].prev.hadEntry
    /\ hist[k].last.status = "cached"
    /\ hist[k].last.now > hist[k].prev.now

\* C9 (token expiry arithmetic): a stored entry has expiresAt = issuedAt +
\* serverTTL - 60 with issuedAt the time read at the start of the call and
\* serverTTL the server's expires_in (3600 when absent); a cached token is
\* returned only while now < expiresAt, hence never within the last 60 seconds
\* of its lifetime at the server or later, and never at all when serverTTL <= 60.
C9_ExpiryArithmetic ==
  \A k \in CacheKeys :
    LET L == hist[k].last
        P == hist[k].prev
        ttlOf(c) == IF c.ttl = -1 THEN 3600 ELSE c.ttl
    IN /\ L.status = "fresh" =>
            /\ L.afterPresent
            /\ L.afterExpires = L.now + ttlOf(L) - 60
       /\ L.status = "cached" =>
            /\ L.hadEntry
            /\ L.now < L.entryExpires
            /\ L.now < L.serverExpiry - 60
       /\ (P.status = "fresh" /\ ttlOf(P) <= 60) => L.status # "cached"

\* C9 witness: a token with a server lifetime of at most 60 seconds was stored
\* and the next call for the key, made at the same instant with that entry in
\* the cache, exchanged again.
C9_Witness ==
  \E k \in CacheKeys :
    /\ hist[k].prev.status = "fresh" /\ hist[k].prev.ttl \in {30, 60}
    /\ hist[k].last.status = "fresh" /\ hist[k].last.now = hist[k].prev.now
    /\ hist[k].last.hadEntry /\ hist[k].last.entryToken = hist[k].prev.token

\* C10 (token exchange failure): a call whose exchange fails raises after exactly
\* one exchange attempt and leaves the cache entry of its key as it was (absent
\* stays absent, an expired entry stays as it is); the next call for the key
\* therefore exchanges again.
C10_ExchangeFailure ==
  \A k \in CacheKeys :
    LET L == hist[k].last
        P == hist[k].prev
    IN /\ L.status = "raised" =>
            /\ L.exchanges = 1
            /\ L.afterPresent = L.hadEntry
            /\ L.afterToken = L.entryToken
            /\ L.afterExpires = L.entryExpires
       /\ (P.status = "raised" /\ L.status # "none") =>
            /\ L.status \in {"fresh", "raised"}
            /\ L.exchanges = 1

\* C10 witness: an exchange failed for a key that held an expired entry, and the
\* next call for that key exchanged and obtained a token.
C10_Witness ==
  \E k \in CacheKeys :
    /\ hist[k].prev.status = "raised" /\ hist[k].prev.hadEntry
    /\ hist[k].last.status = "fresh"

(***************************************************************************)
(* Claims about one scope's page-fetch loop, checked under Spec.           *)
(***************************************************************************)
IdsOf(seq) == { seq[i].id : i \in DOMAIN seq }
DistinctIds(seq) ==
  \A i, j \in DOMAIN seq : i # j => seq[i].id # seq[j].id

\* The ids that occurred in the fetched pages of this fetch (for aws and awsres:
\* in the records the connector selects).
FetchedIds == { raw[i].id : i \in { j \in DOMAIN raw : Keep(conn, lastRun, raw[j]) } }

RECURSIVE SumLens(_)
SumLens(g) == IF g = << >> THEN 0 ELSE g[1].len + SumLens(Tail(g))

CursorStyles == {"azure", "m365", "ad", "awsres"}

\* C1 (dedup invariant): at every point of a fetch the emitted records have
\* pairwise distinct UniqueIDs, and when the fetch has returned the number of
\* emitted records equals the number of distinct UniqueIDs of the fetched pages.
C1_DedupInvariant ==
  /\ DistinctIds(users)
  /\ pPc = "returned" => Len(users) = Cardinality(FetchedIds)

\* C4 (cursor termination): in the cursor-style loops no page is fetched after a
\* page whose cursor is empty, the loop is left as soon as such a page has been
\* fetched, and a loop that ended without a failure ended on such a page: n
\* pages of which only the last has an empty cursor take exactly n fetches.
C4_CursorTermination ==
  conn \in CursorStyles =>
    /\ \A i \in 1..(Len(got) - 1) : got[i].next
    /\ (got # << >> /\ ~got[Len(got)].next) =>
          /\ pPc \in {"dedup", "returned"}
          /\ requests[Len(requests)].url = Len(got) - 1
    /\ (pPc \in {"dedup", "returned"} /\ ~gaveUp) =>
          /\ got # << >>
          /\ ~got[Len(got)].next

\* C4 witness: a loop that fetched MaxPages pages, one of them on a repeated
\* attempt, and ended on the page without a cursor.
C4_Witness ==
  /\ conn \in CursorStyles
  /\ pPc = "returned" /\ ~gaveUp
  /\ Len(got) = MaxPages
  /\ Len(requests) > Len(got)

\* C5 (offset termination): in the ServiceNow loop only the last fetched page is
\* shorter than sysparm_limit; once such a page has been fetched the loop has
\* ended normally with every received record in results, and the last request
\* issued is the one that fetched that page.
C5_OffsetTermination ==
  conn = "servicenow" =>
    /\ \A i \in 1..(Len(got) - 1) : got[i].len >= SysparmLimit
    /\ (got # << >> /\ got[Len(got)].len < SysparmLimit) =>
          /\ pPc \in {"dedup", "returned"}
          /\ Len(raw) = SumLens(got)
          /\ requests[Len(requests)].offset = SysparmLimit * (Len(got) - 1)
    /\ pPc \in {"dedup", "returned"} =>
          /\ got # << >>
          /\ got[Len(got)].len < SysparmLimit

\* C5 witness: a full page, then a short page that is not empty, and the loop
\* has ended.
C5_Witness ==
  /\ conn = "servicenow"
  /\ Len(got) = 2
  /\ got[2].len > 0 /\ got[2].len < SysparmLimit
  /\ pPc = "dedup"

\* C6 (incremental filter gating, last_run absent): no request of the scope,
\* first page, later page or repeated request, carries a modified-since filter.
C6_NoFilterWhenAbsent ==
  lastRun = "absent" =>
    /\ \A i \in DOMAIN requests : requests[i].filter = NoFilter
    /\ pPc = "loop" => params.filter = NoFilter

\* C6 witness: without last_run a connector was throttled, repeated the request
\* and went on to a second page.
C6_Witness ==
  /\ lastRun = "absent"
  /\ conn \in {"m365", "servicenow"}
  /\ throttles > 0
  /\ Len(got) >= 2

RECURSIVE CountIn(_, _)
CountIn(seq, r) ==
  IF seq = << >> THEN 0
  ELSE (IF Head(seq) = r THEN 1 ELSE 0) + CountIn(Tail(seq), r)

RecordsOfReturned ==
  UNION { { tasks[i].acc[j] : j \in DOMAIN tasks[i].acc } :
            i \in { k \in DOMAIN tasks : tasks[k].pc = "returned" } }

RECURSIVE ProducedCount(_, _)
ProducedCount(ts, r) ==
  IF ts = << >> THEN 0
  ELSE (IF Head(ts).pc = "returned" THEN CountIn(Head(ts).acc, r) ELSE 0)
         + ProducedCount(Tail(ts), r)

\* C2 (cross-scope merge): once fetch_identities of azure_connector,
\* aws_connector or LinuxUnixConnector has returned, no UniqueID appears twice
\* among the merged records of one object type, and every merged record
\* carries the connector's Source tag.
C2_CrossScopeMerge ==
  (fiPc = "returned" /\ kind \in {"azure", "aws", "linuxunix"}) =>
    /\ \A i, j \in DOMAIN merged :
         (i # j /\ merged[i].objectType = merged[j].objectType)
           => merged[i].id # merged[j].id
    /\ \A i \in DOMAIN merged : merged[i].source = kind

\* C3 (scope isolation): whatever scope tasks raise, fetch_identities never
\* raises, and once it has returned, every record produced by a scope task that
\* did not raise is in the result as often as it was produced.
C3_ScopeIsolation ==
  /\ fiPc # "raised"
  /\ fiPc = "returned" =>
       \A r \in RecordsOfReturned : CountIn(merged, r) = ProducedCount(tasks, r)

\* Three scopes; both tasks of scope 2 raised, the users tasks of scopes 1 and 3
\* returned all their records, and fetch_identities has returned.
C3_Witness ==
  /\ fiPc = "returned"
  /\ Len(tasks) >= 6
  /\ tasks[3].pc = "raised" /\ tasks[4].pc = "raised"
  /\ tasks[1].pc = "returned" /\ Len(tasks[1].acc) = 2
  /\ tasks[5].pc = "returned" /\ Len(tasks[5].acc) = 2
  /\ \A j \in 1..2 : tasks[1].acc[j] \in { merged[m] : m \in DOMAIN merged }
  /\ \A j \in 1..2 : tasks[5].acc[j] \in { merged[m] : m \in DOMAIN merged }


(***************************************************************************)
(* Claims about concurrent token callers (SpecCallers).                    *)
(***************************************************************************)
\* C11 (token cache under concurrency): callers of one key that find no valid
\* entry are never in the credential exchange at the same time, and callers
\* that raced each other for a key return the same token.
C11_SingleExchange ==
  \A t, u \in CallerIds :
    (t # u /\ callers[t].key = callers[u].key) =>
      /\ ~(callers[t].pc = "exchanging" /\ callers[u].pc = "exchanging")
      /\ (u \in callers[t].raced /\ callers[t].pc = "returned"
            /\ callers[u].pc = "returned")
           => callers[t].token = callers[u].token

(***************************************************************************)
(* Claims about the retry wrapper (SpecRetry).                             *)
(***************************************************************************)
FailuresOf(log) == { i \in DOMAIN log : log[i] = Failed }

\* C12 (transient-failure retry): the wrapped call is invoked at most
\* max_attempts times; the wrapper returns the value of the first invocation
\* that succeeds and invokes nothing after it; after the failed attempt k
\* (counted from 0) it sleeps base_delay * 2^k; after max_attempts failures in
\* a row it raises an error naming the wrapped call and returns no value.
C12_Retry ==
  /\ Len(rLog) <= rCfg.max
  /\ \A i \in DOMAIN rLog : i < Len(rLog) => rLog[i] = Failed
  /\ Len(rSleeps) = Cardinality(FailuresOf(rLog))
  /\ \A k \in DOMAIN rSleeps : rSleeps[k] = rCfg.base * (2 ^ (k - 1))
  /\ rPc = "returned" =>
       /\ rLog # << >> /\ rLog[Len(rLog)] # Failed
       /\ rResult = rLog[Len(rLog)]
       /\ rErr = NoValue
  /\ rPc = "raised" =>
       /\ Len(rLog) = rCfg.max
       /\ FailuresOf(rLog) = DOMAIN rLog
       /\ rErr = rCfg.name /\ rResult = NoValue
  /\ rPc = "running" => FailuresOf(rLog) = DOMAIN rLog

\* Two failures, sleeps of base and 2 * base, then a value on the third
\* invocation, which is returned.
C12_Witness ==
  /\ rPc = "returned"
  /\ Len(rLog) = 3 /\ rCfg.max = 3
  /\ rSleeps = <<rCfg.base, 2 * rCfg.base>>
  /\ rResult = rLog[3]

(***************************************************************************)
(* Claims about rate limiting and retry in the page loops (Spec).          *)
(***************************************************************************)
OkBefore(i) == Cardinality({ j \in 1..(i - 1) : answers[j].kind = "ok" })

\* The page a request asks for: its cursor, or its offset in pages.
PageNo(r) == IF conn = "servicenow" THEN r.offset \div SysparmLimit ELSE r.url

ErrorsSinceOk ==
  { i \in DOMAIN answers :
      /\ answers[i].kind = "error"
      /\ \A j \in i..Len(answers) : answers[j].kind # "ok" }

\* C14 (retry and rate-limit policies are not conflated): in azure
\* _make_request a throttled answer takes nothing from the attempt budget, so
\* a page request is given up only after max_attempts answers that were errors.
C14_ThrottleOutsideBudget ==
  (conn = "azure" /\ gaveUp) => Cardinality(ErrorsSinceOk) >= MaxAttempts

(***************************************************************************)
(* Claims about the scope scheduler (SpecScopes).                          *)
(***************************************************************************)
Running == { i \in DOMAIN tasks : tasks[i].pc = "running" }

\* C15 (bounded scope concurrency): while a connector's fetch is running, the
\* number of its scope tasks executing at the same time never exceeds its
\* max_workers.
C15_BoundedConcurrency ==
  fiPc = "gather" => Cardinality(Running) <= maxWorkers

\* The merged records that came from task i.
MergedOf(i) ==
  { m \in DOMAIN merged :
      /\ merged[m].scope = tasks[i].scope
      /\ merged[m].objectType = ObjectTypeOfTask(tasks[i]) }

\* C16 (a failed scope is excluded from the merged result): once
\* fetch_identities has returned, the merged result holds no record of a scope
\* task whose fetch failed, at whatever point it failed.
C16_FailedScopeExcluded ==
  fiPc = "returned" =>
    \A i \in DOMAIN tasks : tasks[i].failed => MergedOf(i) = {}

\* The first task of every scheduled scope.
IsFirstTask(t) == t.what \in {"users", "host"}

\* The scopes that have been scheduled, in order.
Scheduled ==
  LET firsts == SelectSeq(tasks, IsFirstTask)
  IN  [i \in DOMAIN firsts |-> firsts[i].scope]

\* C28 (scope expansion): once the tasks are scheduled, the scheduled scopes
\* are the elements of the list-valued key when it is given and the single
\* scope of the configuration itself when it is not, and no scope is scheduled
\* twice.
C28_ScopeExpansion ==
  fiPc # "init" =>
    /\ cfgScopes.given => Scheduled = cfgScopes.list
    /\ ~cfgScopes.given => Scheduled = <<SelfScope>>
    /\ \A i \in DOMAIN Scheduled : \A j \in DOMAIN Scheduled :
         i # j => Scheduled[i] # Scheduled[j]

(***************************************************************************)
(* Claims about a scope that hangs (SpecHang).                             *)
(***************************************************************************)
SomeTaskHung == \E i \in DOMAIN tasks : tasks[i].pc = "hung"

OthersFinished ==
  \A i \in DOMAIN tasks : tasks[i].pc \in {"returned", "raised", "hung"}

\* C29 (a hung scope does not block its siblings): under fair scheduling,
\* once a scope task hangs, every task that does not hang is eventually
\* started and runs to its end.
C29_HungScopeIsolated == SomeTaskHung ~> OthersFinished

(***************************************************************************)
(* Claims about the SaaS plugin loader, checked under SpecLoader.          *)
(***************************************************************************)
\* The entries of the mapping that load_plugin turns into an instance.
Loadable ==
  { n \in DOMAIN ldConfig.mapping :
      LoadPlugin(n, ldConfig.mapping[n], importable) # None }

\* C19 (plugin registry failure isolation): once load_saas_connectors, given a
\* non-empty mapping of plugin names to settings, has finished, it has
\* returned normally, and the list it returned holds exactly one instance for
\* every entry that load_plugin accepts and nothing for the entries it skips.
C19_LoadIsolated ==
  (ldPc # "init" /\ DOMAIN ldConfig.mapping # {}) =>
    /\ ldPc = "returned"
    /\ Len(connectors) = Cardinality(Loadable)
    /\ \A n \in Loadable :
         \E i \in DOMAIN connectors : connectors[i].plugin = n

\* C20 (plugin resolution by name convention): for every plugin shipped in
\* plugins/saas, an enabled entry with a config block whose module imports
\* and whose constructor succeeds is resolved by load_plugin to an instance
\* of the class the plugin module defines.
C20_NameConvention ==
  \A n \in DOMAIN loaded :
    LET st == ldConfig.mapping[n] IN
      (/\ n \in PluginFiles
       /\ st.enabled # "false" /\ st.hasConfig /\ st.instOk
       /\ importable)
        => (loaded[n] # None /\ loaded[n].class = DefinedClass(n))

(***************************************************************************)
(* Claims about one run of the service, checked under SpecRun.             *)
(***************************************************************************)
\* C17 (failure reporting): a run that has ended reports, with the records,
\* a count of failed connectors, and the count is the number of connectors
\* whose fetch failed during the run.
C17_FailureCount ==
  runPc = "done" =>
    \E i \in DOMAIN report :
      /\ "failed" \in DOMAIN report[i]
      /\ report[i].failed = Cardinality(failedMods)

\* C18 (the run never aborts on connector failure): whatever connector
\* modules fail to import, load or fetch, no exception leaves main.
C18_NeverAborts ==
  runPc # "aborted"

\* C21 (blocking and suspending connectors are adapted alike): when the run
\* has ended, every record of every scanned connector module that exposes
\* fetch_identities and whose vendor answered the fetch is in the aggregated
\* identity set.
C21_BothStylesAdapted ==
  runPc = "done" =>
    \A m \in DOMAIN vendor :
      vendor[m].ok =>
        \A i \in 1..vendor[m].n :
          \E k \in DOMAIN identityData :
            identityData[k] = Records(m, vendor[m].n)[i]

\* C22 (publisher lifecycle on every exit path): a run that created the
\* publisher and has ended, normally or by an exception, has flushed and
\* closed it, and has started it if any record was sent.
C22_PublisherLifecycle ==
  (runPc \in {"done", "aborted"} /\ producer.created) =>
    /\ producer.flushed
    /\ producer.closed
    /\ (delivered # << >> => producer.started)

\* C23 (publish failure isolation): when the run has ended, the messages
\* handed to the broker are the aggregated records, each exactly once, in
\* aggregation order, on the identity topic.
C23_EveryRecordSent ==
  runPc = "done" =>
    delivered = [i \in DOMAIN identityData |->
                   [topic |-> IdentityTopic, value |-> identityData[i]]]

\* C30 (connectors run concurrently within a run): while the run waits in
\* the fetch of one connector, the fetch of every other connector of the
\* directory that has one has been started.
C30_ConnectorsConcurrent ==
  runPc = "fetching" =>
    \A m \in (pending \cup DOMAIN vendor) \ {current} :
      FetchShape(m) = "absent" \/ m \in fetchStarted

(***************************************************************************)
(* Further claims about one scope's page loop, checked under Spec.         *)
(***************************************************************************)
ObjectTypeEnum == {"user", "role", "computer", "service_account", "resource", "privilege"}

\* The name a connector tags its records with.
ConnectorName(c) == IF c = "awsres" THEN "aws" ELSE c

\* C24 (canonical envelope): every record a connector's fetch has emitted
\* carries an object type of the enumeration and a source equal to the name
\* of the emitting connector.
C24_CanonicalEnvelope ==
  \A i \in DOMAIN users :
    /\ users[i].objectType \in ObjectTypeEnum
    /\ users[i].source = ConnectorName(conn)

\* The positions, in the stream of fetched records, of the records a scope
\* selects whose UniqueID did not occur at an earlier selected position.
FirstOccurrences ==
  { i \in DOMAIN raw :
      /\ Keep(conn, lastRun, raw[i])
      /\ \A j \in 1..(i - 1) :
           Keep(conn, lastRun, raw[j]) => raw[j].id # raw[i].id }

\* C27 (first-seen wins and order is preserved): when the fetch of a scope has
\* returned, the emitted records are the first occurrences of the UniqueIDs in
\* the fetched pages, each with the fields of that first occurrence, in fetch
\* order.
C27_FirstSeenInOrder ==
  pPc = "returned" =>
    /\ { users[k].n : k \in DOMAIN users } = FirstOccurrences
    /\ Len(users) = Cardinality(FirstOccurrences)
    /\ \A k \in DOMAIN users : users[k] = Normalize(conn, raw[users[k].n])
    /\ \A k \in DOMAIN users : \A l \in DOMAIN users :
         k < l => users[k].n < users[l].n

(***************************************************************************)
(* Claims about region threads sharing one dedup set (SpecDedup).          *)
(***************************************************************************)
\* How many records of the result carry the ARN a.
Emitted(a) == Cardinality({ i \in DOMAIN allResources : allResources[i].arn = a })

\* C25 (DedupSet atomicity under fan-out): under every interleaving of the
\* region threads, an ARN that the listings returned, in one region or in
\* several, is in the result exactly once.
C25_AtomicDedup ==
  rfPc = "returned" =>
    \A a \in Arns :
      (\E r \in Regions : \E i \in DOMAIN regionData[r] : regionData[r][i] = a)
        => Emitted(a) = 1

(***************************************************************************)
(* Claims about repeated fetches on one instance (SpecTwice).              *)
(***************************************************************************)
\* C26 (DedupSet lifetime is one run): against unchanged vendor data, every
\* later call of the fetch on the same connector instance returns the records
\* the first call returned.
C26_DedupLifetime ==
  \A i \in DOMAIN twResults : twResults[i] = twResults[1]

(***************************************************************************)
(* Claims about the token caches of two instances (SpecInstances).         *)
(***************************************************************************)
KeyOfCall(n) == ocCfg[ocLog[n].inst].key

\* Call n obtained a token by exchange and no later call before m replaced it.
StillCurrent(n, m) ==
  /\ ocLog[n].status = "fresh"
  /\ \A k \in (n + 1)..(m - 1) :
       ~(KeyOfCall(k) = KeyOfCall(n) /\ ocLog[k].status = "fresh")

\* C31 (process-wide token cache): a get-token call of one instance, made
\* within the expiry window of a token another instance obtained under the
\* same key, returns that token and exchanges no credentials.
C31_ProcessWideCache ==
  \A n \in DOMAIN ocLog : \A m \in DOMAIN ocLog :
    ( /\ n < m
      /\ ocLog[n].inst # ocLog[m].inst
      /\ KeyOfCall(n) = KeyOfCall(m)
      /\ StillCurrent(n, m)
      /\ ocLog[m].now < ocLog[n].expires_at )
    => /\ ocLog[m].status = "cached"
       /\ ocLog[m].token = ocLog[n].token

\* C37 (token/credential binding): every token a get-token call returns was
\* obtained by an exchange that presented the calling configuration's own
\* client credentials.
C37_TokenCredentialBinding ==
  \A n \in DOMAIN ocLog :
    ocLog[n].status \in {"cached", "fresh"}
      => ocGrants[ocLog[n].token] = ocCfg[ocLog[n].inst].cred

(***************************************************************************)
(* Claims about the resource connectors' requests (SpecResReq).            *)
(***************************************************************************)
\* C32 (no default watermark in the resource connectors): a request carries
\* a time parameter only when last_run was supplied; with last_run absent no
\* request has read_time set.
C32_NoDefaultWatermark ==
  \A n \in DOMAIN rqBuilt :
    (rqBuilt[n].read_time # NoReadTime) <=> (rqLastRun # Absent)

(***************************************************************************)
(* Claims about fetch_paginated_data of the OAuth connectors               *)
(* (SpecPaginate).                                                         *)
(***************************************************************************)
OkAnswersBefore(i) == Cardinality({ j \in 1..(i - 1) : fpAns[j].kind = "ok" })

RECURSIVE SumSlept(_)
SumSlept(ans) ==
  IF ans = << >> THEN 0 ELSE Head(ans).slept + SumSlept(Tail(ans))

RECURSIVE ConcatPages(_)
ConcatPages(pages) ==
  IF pages = << >> THEN << >> ELSE Head(pages).recs \o ConcatPages(Tail(pages))

C38_OneTokenPerPagination ==
  /\ Len(fpTokens) <= 1
  /\ fpPc \in {"loop", "returned"} => Len(fpTokens) = 1
  /\ \A i \in DOMAIN fpReqs :
       /\ Len(fpTokens) = 1
       /\ fpReqs[i].auth = fpTokens[1]

\* A request issued when the token's cache entry had already expired.
C38_Witness ==
  /\ Len(fpReqs) >= 2
  /\ "k1" \in DOMAIN fpCache
  /\ fpReqs[Len(fpReqs)].at >= fpCache["k1"].expires_at
  /\ fpReqs[Len(fpReqs)].auth = fpCache["k1"].access_token
  /\ fpAns[Len(fpAns)].kind = "ok"

\* C39 (ServiceNow offset progression): the pages answered were asked for at
\* offsets 0, L, 2L, ... in this order; a request repeated after a rate-limit
\* wait has the offset of the throttled one; after a short page the offset is
\* not advanced; the list returned is the concatenation of the pages.
C39_OffsetProgression ==
  fpConn = "servicenow" =>
    /\ \A i \in DOMAIN fpPages : fpPages[i].offset = (i - 1) * fpLimit
    /\ \A i \in DOMAIN fpReqs : fpReqs[i].offset = OkAnswersBefore(i) * fpLimit
    /\ fpPc = "loop" => fpOffset = Len(fpPages) * fpLimit
    /\ (fpPc = "returned" =>
          /\ fpOffset = (Len(fpPages) - 1) * fpLimit
          /\ Len(fpPages[Len(fpPages)].recs) < fpLimit)
    /\ \A i \in 1..(Len(fpPages) - 1) : Len(fpPages[i].recs) = fpLimit
    /\ fpResults = ConcatPages(fpPages)

\* A full page, a throttled request, then the short page at offset L.
C39_Witness ==
  /\ fpConn = "servicenow" /\ fpPc = "returned"
  /\ Len(fpAns) = 3
  /\ fpAns[1].kind = "ok" /\ fpAns[2].kind = "throttle" /\ fpAns[3].kind = "ok"
  /\ fpPages[2].offset = fpLimit
  /\ fpPages[2].recs # << >>

(***************************************************************************)
(* Claims about the auth service (SpecAuth).                               *)
(***************************************************************************)
\* C34 (auth settings take effect at call time): every token is signed with
\* the secret and algorithm, and expires after the minutes, that the
\* environment held when generate_access_token was called; verify_token
\* decodes with the secret and algorithm the environment holds when it is
\* called, so a token generated under 0 minutes is reported expired from one
\* second later on, and a token checked under the settings it was generated
\* under is not reported invalid.
C34_SettingsAtCallTime ==
  /\ \A n \in DOMAIN auTokens :
       /\ auTokens[n].key = auTokens[n].env.secret
       /\ auTokens[n].alg = auTokens[n].env.alg
       /\ auTokens[n].exp = auTokens[n].at + auTokens[n].env.minutes * SecondsPerMinute
  /\ \A c \in DOMAIN auChecks :
       LET t == auTokens[auChecks[c].token]
       IN /\ (t.env.secret = auChecks[c].env.secret /\ t.env.alg = auChecks[c].env.alg)
               => auChecks[c].outcome # "invalid"
          /\ (/\ t.env.secret = auChecks[c].env.secret
              /\ t.env.alg = auChecks[c].env.alg
              /\ t.env.minutes = 0
              /\ auChecks[c].at >= t.at + 1)
               => auChecks[c].outcome = "expired"

(***************************************************************************)
(* Claim about the hand-off from main to the plugin loader (SpecRun).      *)
(***************************************************************************)
\* C35 (hand-off from main to the plugin registry): once the SaaS block of
\* main is over, load_plugin has been invoked for every entry of
\* config["saas"] that is not disabled.
C35_SaasHandOff ==
  runPc \in {"publish", "sending", "done"} =>
    \A n \in DOMAIN saasMapping :
      saasMapping[n].enabled # "false" => n \in saasInvoked

(***************************************************************************)
(* Claim about the KafkaProducerWrapper lifecycle (SpecProducer).          *)
(***************************************************************************)
\* C36 (KafkaProducerWrapper lifecycle): start is invoked on the
\* AIOKafkaProducer only while it is stopped and stop only while it is
\* started, send_and_wait and flush only while it is started, and with no
\* call in progress the 'started' flag is true exactly when the producer is
\* started.
C36_ProducerLifecycle ==
  /\ \A n \in DOMAIN kpLog :
       /\ kpLog[n].op = "start" => kpLog[n].under = "stopped"
       /\ kpLog[n].op = "stop" => kpLog[n].under = "started"
       /\ kpLog[n].op \in {"send_and_wait", "flush"} => kpLog[n].under = "started"
  /\ (\A t \in Coroutines : kpCalls[t] = NotInCall)
       => (kpStarted <=> kpUnder = "started")

=============================================================================
